---- MODULE Spec2Model ----
(***************************************************************************)
(* Provider loading and aggregation of Cymusic.                            *)
(*                                                                         *)
(* Two independent singletons are modelled: the helper PluginManager       *)
(* (helpers/PluginManager.ts) with the aggregated search helpers/searchAll *)
(* built on it, and the core PluginRegistry / PluginLoader / PluginManager *)
(* (plugins/core).  They share no state, so each has its own specification *)
(* over the common variables; a specification leaves the variables of the  *)
(* other parts unchanged.                                                  *)
(***************************************************************************)
EXTENDS Integers, Sequences, FiniteSets, TLC

VARIABLES
    hPlugins,   \* helper PluginManager.plugins: Map platform -> ManagedPlugin, in insertion order
    store,      \* PersistStatus: key 'plugin_config_' + platform -> persisted configuration
    hLast,      \* outcome of the last helper PluginManager call
    hFiles,     \* the files of PLUGINS_DIRECTORY: file name -> platform of the script
    sa,         \* the frame of a searchAll call: position, locals, returned value
    saObs,      \* what the providers of that call did (recorded as the calls happen)
    appVersion, \* DeviceInfo.getVersion(): the version of the host application
    loaded,     \* the last call of PluginLoader.loadFromCode: its arguments and its result
    builtinPlugins, \* PluginRegistry.builtinPlugins
    plugins,    \* PluginRegistry.plugins: the installed plugins
    initialized,    \* PluginRegistry.initialized
    disk,       \* the files of pathConst.pluginPath: file number -> code
    rLast,      \* the last call on the PluginRegistry: arguments, state before, result
    userDisabled,   \* the names last passed to setPluginEnabled(name, false)
    tasks,      \* the asynchronous calls in flight: the frame of each, by its number
    screen      \* the React state of the screen that is shown

helperVars == <<hPlugins, store, hLast, hFiles, sa, saObs>>
loaderVars == <<appVersion, loaded>>
registryVars == <<builtinPlugins, plugins, initialized, disk, rLast, userDisabled>>
vars == <<hPlugins, store, hLast, hFiles, sa, saObs, appVersion, loaded,
          builtinPlugins, plugins, initialized, disk, rLast, userDisabled, tasks, screen>>

Nil == "nil"                       \* undefined / null where the value is a string
None == [none |-> TRUE]            \* undefined / null where the value is an object

(***************************************************************************)
(* Bounds of the model.                                                    *)
(***************************************************************************)
MaxItems == 2    \* items a provider returns in one page

(***************************************************************************)
(* Small operators on sequences.                                           *)
(***************************************************************************)
SeqsUpTo(S, n) == UNION {[1..k -> S] : k \in 0..n}

RECURSIVE FilterFrom(_, _, _)
\* s.filter((x, index) => keep[index]) for the indices from i on; keep is the
\* sequence of the callback's answers
FilterFrom(s, keep, i) ==
    IF i > Len(s) THEN <<>>
    ELSE (IF keep[i] THEN <<s[i]>> ELSE <<>>) \o FilterFrom(s, keep, i + 1)

\* findIndex: the least index whose answer is true, 0 when there is none;
\* hits is the sequence of the callback's answers
FindIndex(hits) ==
    IF \E j \in 1..Len(hits) : hits[j]
    THEN CHOOSE j \in 1..Len(hits) : hits[j] /\ \A k \in 1..(j - 1) : ~hits[k]
    ELSE 0

(***************************************************************************)
(* Helper PluginManager (helpers/PluginManager.ts).                        *)
(***************************************************************************)
HPlatforms == <<"A", "B", "C">>       \* the plugin files of the plugins directory, in readdir order
HPlatformSet == {HPlatforms[i] : i \in 1..Len(HPlatforms)}
VarKeys == {"cookie"}
VarValues == {"v1", "v2"}

\* PluginUserConfig: { userVariables?, isEnabled? }
DefaultConfig == [isEnabled |-> TRUE, userVariables |-> [k \in VarKeys |-> Nil]]

\* this.plugins.get(pluginId): index of the entry, 0 when absent
HIndexOf(pluginId) == FindIndex([j \in 1..Len(hPlugins) |-> hPlugins[j].platform = pluginId])

\* getPlugin(platform)
HGetPlugin(platform) == IF HIndexOf(platform) = 0 THEN None ELSE hPlugins[HIndexOf(platform)]

\* getActivePlugins(): Array.from(values).filter(p => p.userConfig.isEnabled !== false && p.instance)
GetActivePlugins ==
    SelectSeq(hPlugins, LAMBDA p : p.userConfig.isEnabled # FALSE /\ p.instance # None)

\* getEnvForPlugin(pluginId).getUserVariables()
GetUserVariables(pluginId) == HGetPlugin(pluginId).userConfig.userVariables

(***************************************************************************)
(* searchAll (helpers/searchAll.ts).                                       *)
(***************************************************************************)
\* the ids a provider may give an item: the number 1, the string '1', the string '2'
RawIds == {<<"number", 1>>, <<"string", "1">>, <<"string", "2">>}

DigitStr(n) == CASE n = 1 -> "1" [] n = 2 -> "2" [] OTHER -> "0"

\* String(item.id)
StringOf(id) == IF id[1] = "number" THEN <<"string", DigitStr(id[2])>> ELSE id

\* what a provider's search does: it throws, or resolves to { data, isEnd } where
\* data may be missing and isEnd may be omitted
IsEndValues == {"true", "false", "omitted"}
SearchOutcomes ==
    {[kind |-> "throw"]}
    \cup {[kind |-> "ok", hasData |-> FALSE, data |-> <<>>, isEnd |-> "omitted"]}
    \cup {[kind |-> "ok", hasData |-> TRUE, data |-> d, isEnd |-> e] :
              d \in SeqsUpTo(RawIds, MaxItems), e \in IsEndValues}

\* result.data.map(item => ({ id: String(item.id), ..., platform: plugin.platform }))
MapToTracks(data, platform) ==
    [j \in 1..Len(data) |-> [id |-> StringOf(data[j]), platform |-> platform]]

\* a de-duplication that looks at the id alone
UniqueResultsById(aggregated) ==
    FilterFrom(aggregated,
        [index \in 1..Len(aggregated) |->
            index = FindIndex([j \in 1..Len(aggregated) |->
                        aggregated[j].id = aggregated[index].id])],
        1)

\* aggregatedResults.filter((track, index, self) =>
\*     index === self.findIndex(t => t.id === track.id && t.platform === track.platform))
UniqueResults(aggregated) ==
    FilterFrom(aggregated,
        [index \in 1..Len(aggregated) |->
            index = FindIndex([j \in 1..Len(aggregated) |->
                        aggregated[j].id = aggregated[index].id
                        /\ aggregated[j].platform = aggregated[index].platform])],
        1)

\* mapSearchType(type) (lines 12-16)
MapSearchType(type) ==
    CASE type = "songs" -> "music"
      [] type = "artists" -> "artist"
      [] OTHER -> "music"

SaIdle == [pc |-> "idle", pluginSearchType |-> Nil, activePlugins |-> <<>>, i |-> 0,
           aggregatedResults |-> <<>>,
           hasMoreOverall |-> FALSE, result |-> None]
ObsNone == [called |-> {}, succeeded |-> {}, threw |-> {}, notEnd |-> {}, items |-> {}]

\* lines 25-28: the snapshot of the active plugins and the locals
SearchAllStart(type) ==
    /\ sa.pc \in {"idle", "done"}
    /\ sa' = [SaIdle EXCEPT !.pc = "loop", !.pluginSearchType = MapSearchType(type),
                            !.activePlugins = GetActivePlugins, !.i = 1]
    /\ saObs' = ObsNone
    /\ UNCHANGED <<hPlugins, store, hLast, hFiles, tasks, screen, loaderVars, registryVars>>

\* a merge that counts an omitted isEnd as "more"
AfterSearchLenient(frame, plugin, result) ==
    IF result.hasData /\ Len(result.data) > 0
    THEN [frame EXCEPT
            !.hasMoreOverall = IF result.isEnd # "true" THEN TRUE ELSE @,
            !.aggregatedResults = @ \o MapToTracks(result.data, plugin.platform)]
    ELSE frame

\* the body of the try block (lines 41-76) for one resolved search
AfterSearch(frame, plugin, result) ==
    IF result.hasData /\ Len(result.data) > 0
    THEN [frame EXCEPT
            !.hasMoreOverall = IF result.isEnd = "false" THEN TRUE ELSE @,
            !.aggregatedResults = @ \o MapToTracks(result.data, plugin.platform)]
    ELSE frame

\* a loop whose catch block lets the provider's error through to the caller
OnSearchErrorRethrown(frame) == [frame EXCEPT !.pc = "raised"]

\* catch (error) { console.error(...) } (lines 77-79): the loop goes on
OnSearchError(frame) == frame

\* one iteration of the loop over activePlugins (lines 30-88); the flag of the
\* plugin object is read again here, as line 31 does
SearchAllIteration ==
    /\ sa.pc = "loop"
    /\ sa.i <= Len(sa.activePlugins)
    /\ LET plugin == sa.activePlugins[sa.i]
           live == HGetPlugin(plugin.platform)
       IN IF plugin.instance # None /\ plugin.instance.search /\ live.userConfig.isEnabled # FALSE
          THEN \E out \in SearchOutcomes :
                 /\ sa' = LET after == IF out.kind = "throw" THEN OnSearchError(sa)
                                       ELSE AfterSearch(sa, plugin, out)
                          IN IF after.pc = "loop" THEN [after EXCEPT !.i = @ + 1] ELSE after
                 /\ saObs' = [saObs EXCEPT
                        !.called = @ \cup {plugin.platform},
                        !.succeeded = IF out.kind = "ok" THEN @ \cup {plugin.platform} ELSE @,
                        !.threw = IF out.kind = "throw" THEN @ \cup {plugin.platform} ELSE @,
                        !.notEnd = IF out.kind = "ok" /\ out.isEnd = "false" /\ out.data # <<>>
                                   THEN @ \cup {plugin.platform} ELSE @,
                        !.items = IF out.kind = "ok"
                                  THEN @ \cup {<<plugin.platform, out.data[j]>> : j \in 1..Len(out.data)}
                                  ELSE @]
          ELSE /\ sa' = [sa EXCEPT !.i = @ + 1]
               /\ UNCHANGED saObs
    /\ UNCHANGED <<hPlugins, store, hLast, hFiles, tasks, screen, loaderVars, registryVars>>

\* lines 90-111: de-duplication and the returned value
SearchAllReturn ==
    /\ sa.pc = "loop"
    /\ sa.i > Len(sa.activePlugins)
    /\ sa' = [sa EXCEPT !.pc = "done",
                        !.result = [data |-> UniqueResults(sa.aggregatedResults),
                                    hasMore |-> sa.hasMoreOverall]]
    /\ UNCHANGED <<hPlugins, store, hLast, hFiles, saObs, tasks, screen, loaderVars, registryVars>>

(***************************************************************************)
(* Configuration calls of the helper PluginManager.                        *)
(***************************************************************************)
\* savePluginConfig(pluginId, config): PersistStatus.set of the serialized
\* configuration; the write either lands whole or fails and leaves the key
SavePluginConfig(st, pluginId, config, writeOk) ==
    IF writeOk THEN [st EXCEPT ![pluginId] = config] ELSE st

\* setPluginEnabled(pluginId, isEnabled) (lines 130-142)
HSetPluginEnabled(pluginId, isEnabled, writeOk) ==
    /\ LET idx == HIndexOf(pluginId) IN
         IF idx # 0
         THEN LET config == [hPlugins[idx].userConfig EXCEPT !.isEnabled = isEnabled] IN
              /\ hPlugins' = [hPlugins EXCEPT ![idx].userConfig = config]
              /\ store' = SavePluginConfig(store, pluginId, config, writeOk)
              /\ hLast' = [op |-> "setPluginEnabled", pluginId |-> pluginId, key |-> Nil,
                           before |-> Nil, value |-> Nil,
                           outcome |-> IF writeOk THEN "resolved" ELSE "rejected"]
         ELSE /\ hLast' = [op |-> "setPluginEnabled", pluginId |-> pluginId, key |-> Nil,
                           before |-> Nil, value |-> Nil, outcome |-> "resolved"]
              /\ UNCHANGED <<hPlugins, store>>
    /\ UNCHANGED <<hFiles, sa, saObs, tasks, screen, loaderVars, registryVars>>

\* setPluginUserVariable(pluginId, key, value) (lines 145-157)
HSetPluginUserVariable(pluginId, key, value, writeOk) ==
    /\ LET idx == HIndexOf(pluginId) IN
         IF idx # 0
         THEN LET config == [hPlugins[idx].userConfig EXCEPT !.userVariables[key] = value] IN
              /\ hPlugins' = [hPlugins EXCEPT ![idx].userConfig = config]
              /\ store' = SavePluginConfig(store, pluginId, config, writeOk)
              /\ hLast' = [op |-> "setPluginUserVariable", pluginId |-> pluginId, key |-> key,
                           before |-> hPlugins[idx].userConfig.userVariables[key], value |-> value,
                           outcome |-> IF writeOk THEN "resolved" ELSE "rejected"]
         ELSE /\ hLast' = [op |-> "setPluginUserVariable", pluginId |-> pluginId, key |-> key,
                           before |-> Nil, value |-> value, outcome |-> "resolved"]
              /\ UNCHANGED <<hPlugins, store>>
    /\ UNCHANGED <<hFiles, sa, saObs, tasks, screen, loaderVars, registryVars>>

(***************************************************************************)
(* PluginLoader (plugins/core/PluginLoader.ts).                            *)
(***************************************************************************)
\* the version strings met in the model; a plugin's version field is read both
\* as a range (satisfies) and as a version (compare)
AppVersions == {"2.0.0", "2.3.0", "3.0.0"}
VersionFields == {Nil, "1.0.0", "2.0.0", "3.0.0", ">=1.0.0", "latest"}

\* new SemVer(v): the version triple, <<>> where semver throws 'Invalid Version'
SemVerOf(v) ==
    CASE v = "0.0.0" -> <<0, 0, 0>>
      [] v = "1.0.0" -> <<1, 0, 0>>
      [] v = "2.0.0" -> <<2, 0, 0>>
      [] v = "2.3.0" -> <<2, 3, 0>>
      [] v = "3.0.0" -> <<3, 0, 0>>
      [] OTHER -> <<>>

\* semver compare(a, b): 1, 0 or -1 (both valid)
Compare(a, b) ==
    LET x == SemVerOf(a)
        y == SemVerOf(b)
    IN CASE x[1] > y[1] -> 1
         [] x[1] < y[1] -> -1
         [] x[2] > y[2] -> 1
         [] x[2] < y[2] -> -1
         [] x[3] > y[3] -> 1
         [] x[3] < y[3] -> -1
         [] OTHER -> 0

\* semver satisfies(version, range): an x.y.z range admits that version only,
\* '>=1.0.0' every version from 1.0.0 on, an invalid range none
Satisfies(version, range) ==
    CASE SemVerOf(range) # <<>> -> Compare(version, range) = 0
      [] range = ">=1.0.0" -> Compare(version, "1.0.0") >= 0
      [] OTHER -> FALSE

Methods == {"search", "getMediaSource", "getAlbumInfo"}

\* what executing a plugin's code yields: it throws (or exports no object), or
\* it exports an object with these fields
ModuleOf(platform, version, methods, userVariables) ==
    [kind |-> "module", platform |-> platform, version |-> version, stub |-> FALSE,
     methods |-> methods, userVariables |-> userVariables]
ThrowingCode == [kind |-> "throws"]
EmptyCode == [kind |-> "empty"]       \* '': runs and exports {}

\* the userVariables a plugin may declare; an entry may lack its key
UserVariableLists == {<<>>, <<[key |-> "cookie"], [key |-> Nil]>>}

AllCodes ==
    {ThrowingCode, EmptyCode}
    \cup {ModuleOf(pf, v, m, uv) : pf \in {"", "qq", "ext"}, v \in VersionFields,
                                    m \in {{}, Methods}, uv \in UserVariableLists}

\* the dummy instance of lines 130-142
StubInstance ==
    [kind |-> "module", platform |-> "", version |-> "0.0.0", stub |-> TRUE,
     methods |-> Methods, userVariables |-> <<>>]

\* what a call of a method of an instance resolves to
StubSearchResult == [kind |-> "ok", hasData |-> TRUE, data |-> <<>>, isEnd |-> "true"]
SearchResultsOf(instance) == IF instance.stub THEN {StubSearchResult} ELSE SearchOutcomes
GetMediaSourceOf(instance) == IF instance.stub THEN {"null"} ELSE {"null", "source", "throw"}
GetAlbumInfoOf(instance) == IF instance.stub THEN {"null"} ELSE {"null", "album", "throw"}

\* validatePlugin without its version test
ValidatePluginPlatformOnly(instance, app) ==
    IF instance.platform = "" THEN "Error" ELSE "ok"
\* validatePlugin(instance): "ok", or what it throws
ValidatePlugin(instance, app) ==
    IF instance.version # Nil /\ ~Satisfies(app, instance.version)
    THEN "version-not-match"
    ELSE IF instance.platform = "" THEN "Error" ELSE "ok"

\* loadFromCode(pluginCode, pluginPath); hash is the value nanoid() gives
LoadFromCode(pluginCode, pluginPath, app, hash) ==
    LET exports == IF pluginCode.kind = "empty" THEN ModuleOf("", Nil, {}, <<>>) ELSE pluginCode
        thrown == IF pluginCode.kind = "throws" THEN "Error"
                  ELSE ValidatePlugin(exports, app)
        instance ==
            CASE thrown = "ok" ->
                    [exports EXCEPT !.userVariables =
                        SelectSeq(exports.userVariables, LAMBDA it : it.key # Nil)]
              [] thrown = "version-not-match" -> exports       \* e.instance
              [] OTHER -> StubInstance
    IN [instance |-> instance,
        state |-> IF thrown = "ok" THEN "mounted" ELSE "error",
        errorReason |-> CASE thrown = "ok" -> Nil
                          [] thrown = "version-not-match" -> "version-not-match"
                          [] OTHER -> "cannot-parse",
        hash |-> hash,
        name |-> instance.platform,
        path |-> pluginPath]

\* paths: a file of the plugin directory (pathConst.pluginPath + n + '.js'), a
\* file elsewhere on the device, a URL, and the 'builtin' of built-in plugins
PluginDirFile(n) == [dir |-> "plugins", n |-> n]
LocalFile == [dir |-> "sdcard", n |-> 1]
UrlPath == [dir |-> "https", n |-> 1]
BuiltinPath == [dir |-> "builtin", n |-> 0]
PluginPaths == {LocalFile, UrlPath}

(***************************************************************************)
(* PluginRegistry (plugins/core/PluginRegistry.ts): the state, and the     *)
(* variables' values while another part of the program is looked at.       *)
(***************************************************************************)
\* registerBuiltinPlugin(plugin) (lines 98-111); hash is nanoid()'s value
RegisterBuiltinPlugin(plugin, hash) ==
    [instance |-> plugin, state |-> "mounted", hash |-> hash, name |-> plugin.platform,
     path |-> BuiltinPath,
     meta |-> [enabled |-> TRUE, order |-> 0, userVariables |-> <<>>]]

\* a built-in plugin that declares supportedSearchType (SampleMusicPlugin.ts
\* line 22, QQMusicPlugin.ts line 21); a module of ModuleOf declares none
DeclaredSearchTypes == {"music", "album", "artist", "sheet"}
WithSearchTypes(module, types) ==
    [f \in DOMAIN module \cup {"supportedSearchType"} |->
        IF f = "supportedSearchType" THEN types ELSE module[f]]

\* the constructor (lines 87-92): LocalFilesPlugin, SampleMusicPlugin, QQMusicPlugin
BuiltinsAfterConstruction ==
    <<RegisterBuiltinPlugin(ModuleOf("local", "1.0.0", {"getMediaSource"}, <<>>), 1),
      RegisterBuiltinPlugin(WithSearchTypes(ModuleOf("sample", "1.0.0", Methods, <<>>),
                                            DeclaredSearchTypes), 2),
      RegisterBuiltinPlugin(WithSearchTypes(ModuleOf("qq", "1.0.0", {"search", "getMediaSource"}, <<>>),
                                            DeclaredSearchTypes), 3)>>

NoCall == [op |-> "none"]
\* no screen of the application is mounted
NoScreen == [name |-> "none"]

InitRegistryIdle ==
    /\ builtinPlugins = BuiltinsAfterConstruction
    /\ plugins = <<>>
    /\ initialized = FALSE
    /\ disk = <<>>
    /\ rLast = NoCall
    /\ tasks = <<>>
    /\ screen = NoScreen
    /\ userDisabled = {}

(***************************************************************************)
(* Specifications of the helper PluginManager and of searchAll.            *)
(***************************************************************************)
\* the plugins the constructor's loadPlugins() found: every file of the directory
\* that evaluates to a module with a platform; some implement no search
InitHelperWith(files) ==
    /\ \E noSearch \in SUBSET {"C"}, disabled \in SUBSET HPlatformSet :
         /\ hPlugins = [j \in 1..Len(files) |->
                [platform |-> files[j], filePath |-> j,
                 instance |-> [search |-> files[j] \notin noSearch],
                 userConfig |-> [DefaultConfig EXCEPT !.isEnabled = files[j] \notin disabled]]]
         /\ store = [p \in HPlatformSet |->
                IF p \in disabled THEN [DefaultConfig EXCEPT !.isEnabled = FALSE] ELSE None]
    /\ hFiles = files
    /\ hLast = [op |-> "none"]
    /\ sa = SaIdle
    /\ saObs = ObsNone
    /\ appVersion = "3.0.0"
    /\ loaded = None
    /\ InitRegistryIdle

InitHelper == InitHelperWith(HPlatforms)

\* a plugins directory that holds the files of A and B only
InitHelperTwo == InitHelperWith(SubSeq(HPlatforms, 1, 2))

UnknownPlugin == "Z"     \* a pluginId no loaded plugin has

NextSearchAll ==
    \/ SearchAllStart("songs")
    \/ SearchAllIteration
    \/ SearchAllReturn

SpecSearchAll == InitHelper /\ [][NextSearchAll]_vars

\* searchAll with the await of line 41 as a place of its own: the search of
\* the i-th active plugin has been called and has not settled
SearchAllCall ==
    /\ sa.pc = "loop"
    /\ sa.i <= Len(sa.activePlugins)
    /\ LET plugin == sa.activePlugins[sa.i]
           live == HGetPlugin(plugin.platform)
       IN IF plugin.instance # None /\ plugin.instance.search /\ live.userConfig.isEnabled # FALSE
          THEN /\ sa' = [sa EXCEPT !.pc = "awaiting"]
               /\ saObs' = [saObs EXCEPT !.called = @ \cup {plugin.platform}]
          ELSE /\ sa' = [sa EXCEPT !.i = @ + 1]
               /\ UNCHANGED saObs
    /\ UNCHANGED <<hPlugins, store, hLast, hFiles, tasks, screen, loaderVars, registryVars>>

\* the awaited search settles with out, and the loop goes to the next plugin
\* (lines 41-79)
SearchAllSettle(out) ==
    /\ sa.pc = "awaiting"
    /\ LET plugin == sa.activePlugins[sa.i]
           after == IF out.kind = "throw" THEN OnSearchError(sa) ELSE AfterSearch(sa, plugin, out)
       IN /\ sa' = [after EXCEPT !.pc = "loop", !.i = @ + 1]
          /\ saObs' = [saObs EXCEPT
                 !.succeeded = IF out.kind = "ok" THEN @ \cup {plugin.platform} ELSE @,
                 !.threw = IF out.kind = "throw" THEN @ \cup {plugin.platform} ELSE @]
    /\ UNCHANGED <<hPlugins, store, hLast, hFiles, tasks, screen, loaderVars, registryVars>>

\* the outcomes a search settles with here: it throws, or resolves to one item
SettleOutcomes ==
    {[kind |-> "throw"], [kind |-> "ok", hasData |-> TRUE, data |-> <<<<"string", "1">>>>, isEnd |-> "true"]}

NextSearchAllTasks ==
    \/ SearchAllStart("songs")
    \/ SearchAllCall
    \/ \E out \in SettleOutcomes : SearchAllSettle(out)
    \/ SearchAllReturn
    \/ sa.pc \in {"idle", "done"} /\ \E p \in HPlatformSet, b \in BOOLEAN : HSetPluginEnabled(p, b, TRUE)

SpecSearchAllTasks == InitHelper /\ [][NextSearchAllTasks]_vars

\* searchAll over plugins that declare supportedSearchType: A declares none
\* and B declares album
HDeclaredTypes == [p \in {"B"} |-> {"album"}]
InitHelperTyped ==
    /\ hPlugins = [j \in 1..2 |->
           [platform |-> HPlatforms[j], filePath |-> j,
            instance |-> IF HPlatforms[j] \in DOMAIN HDeclaredTypes
                         THEN [search |-> TRUE, supportedSearchType |-> HDeclaredTypes[HPlatforms[j]]]
                         ELSE [search |-> TRUE],
            userConfig |-> DefaultConfig]]
    /\ store = [p \in HPlatformSet |-> None]
    /\ hFiles = SubSeq(HPlatforms, 1, 2)
    /\ hLast = [op |-> "none"]
    /\ sa = SaIdle
    /\ saObs = ObsNone
    /\ appVersion = "3.0.0"
    /\ loaded = None
    /\ InitRegistryIdle

SearchAllTypes == {"songs", "artists"}
NextSearchTyped ==
    \/ \E type \in SearchAllTypes : SearchAllStart(type)
    \/ SearchAllIteration
    \/ SearchAllReturn

SpecSearchTyped == InitHelperTyped /\ [][NextSearchTyped]_vars

\* the configuration calls the management screens make, with every outcome of
\* the durable write
NextHelper ==
    \/ \E p \in HPlatformSet \cup {UnknownPlugin}, b \in BOOLEAN, ok \in BOOLEAN :
          HSetPluginEnabled(p, b, ok)
    \/ \E p \in HPlatformSet \cup {UnknownPlugin}, k \in VarKeys, v \in VarValues, ok \in BOOLEAN :
          HSetPluginUserVariable(p, k, v, ok)

SpecHelper == InitHelperTwo /\ [][NextHelper]_vars

InitLoader ==
    /\ appVersion \in AppVersions
    /\ loaded = None
    /\ InitRegistryIdle
    /\ hPlugins = <<>>
    /\ store = [p \in HPlatformSet |-> None]
    /\ hFiles = <<>>
    /\ hLast = [op |-> "none"]
    /\ sa = SaIdle
    /\ saObs = ObsNone

LoadFromCodeCall(pluginCode, pluginPath) ==
    /\ loaded' = [pluginCode |-> pluginCode,
                  result |-> LoadFromCode(pluginCode, pluginPath, appVersion, 1)]
    /\ UNCHANGED <<helperVars, appVersion, tasks, screen, registryVars>>

NextLoader == \E code \in AllCodes, path \in PluginPaths : LoadFromCodeCall(code, path)

SpecLoader == InitLoader /\ [][NextLoader]_vars

(***************************************************************************)
(* PluginRegistry (plugins/core/PluginRegistry.ts): its operations.       *)
(***************************************************************************)
\* getAllPlugins() (lines 341-343)
GetAllPlugins == builtinPlugins \o plugins

\* this.plugins.find(p => p.name === name): its index, 0 when there is none
FindByName(ps, name) == FindIndex([j \in 1..Len(ps) |-> ps[j].name = name])
FindByHash(ps, hash) == FindIndex([j \in 1..Len(ps) |-> ps[j].hash = hash])

\* nanoid() as a hash: a value no registered plugin has
FreshHash(ps) ==
    LET used == {builtinPlugins[j].hash : j \in 1..Len(builtinPlugins)}
                \cup {ps[j].hash : j \in 1..Len(ps)}
    IN CHOOSE h \in 1..(Cardinality(used) + 1) :
          h \notin used /\ \A g \in 1..(h - 1) : g \in used

\* nanoid() as a file name: a name no file and no registered plugin has
FreshFile(d, ps) ==
    LET used == DOMAIN d \cup {ps[j].path.n : j \in {i \in 1..Len(ps) : ps[i].path.dir = "plugins"}}
    IN CHOOSE n \in 1..(Cardinality(used) + 1) :
          n \notin used /\ \A g \in 1..(n - 1) : g \in used

\* try { await unlink(path) } catch {}: the files afterwards
Unlink(d, path) ==
    IF path.dir = "plugins" /\ path.n \in DOMAIN d
    THEN [n \in DOMAIN d \ {path.n} |-> d[n]]
    ELSE d

\* the entry pushed at lines 172-183 and 309-320
NewEntry(loadedPlugin, path, order) ==
    [instance |-> loadedPlugin.instance, state |-> loadedPlugin.state,
     hash |-> loadedPlugin.hash, name |-> loadedPlugin.name, path |-> path,
     meta |-> [enabled |-> TRUE, order |-> order, userVariables |-> <<>>]]

\* loadPlugin(pluginCode, pluginPath) (lines 156-196) run on the installed
\* plugins ps and the files d: what they are afterwards
LoadPlugin(ps, d, pluginCode, pluginPath, app) ==
    LET l == LoadFromCode(pluginCode, pluginPath, app, FreshHash(ps))
        k == FindByName(ps, l.name)
        pushed == Append(ps, NewEntry(l, l.path, IF k # 0 THEN ps[k].meta.order ELSE Len(ps)))
    IN CASE FindByHash(ps, l.hash) # 0 -> [plugins |-> ps, disk |-> d]
         [] l.state # "mounted" -> [plugins |-> ps, disk |-> d]
         [] k # 0 -> [plugins |-> FilterFrom(pushed, [j \in 1..Len(pushed) |-> pushed[j].hash # ps[k].hash], 1),
                      disk |-> Unlink(d, ps[k].path)]
         [] OTHER -> [plugins |-> pushed, disk |-> d]

\* an item of the directory that is no file, or whose name and path do not
\* end in '.js'
OtherFile == [kind |-> "other"]

\* a test that no item passes
IsPluginFileNever(file) == FALSE
\* pluginFileItem.isFile() && (name?.endsWith?.('.js') || path?.endsWith?.('.js'))
\* (lines 129-133)
IsPluginFile(file) == file.kind # "other"

\* the loop of initialize() (lines 126-138) over the directory listing items;
\* readFile fails for a file that is gone, and for the file failAt
RECURSIVE InitializeLoop(_, _, _, _, _)
InitializeLoop(ps, d, items, failAt, app) ==
    IF items = <<>> THEN [plugins |-> ps, disk |-> d, thrown |-> FALSE]
    ELSE IF Head(items) \in DOMAIN d /\ ~IsPluginFile(d[Head(items)])
         THEN InitializeLoop(ps, d, Tail(items), failAt, app)
    ELSE IF Head(items) \notin DOMAIN d \/ Head(items) = failAt
         THEN [plugins |-> ps, disk |-> d, thrown |-> TRUE]
         ELSE LET after == LoadPlugin(ps, d, d[Head(items)], PluginDirFile(Head(items)), app)
              IN InitializeLoop(after.plugins, after.disk, Tail(items), failAt, app)

\* the test of lines 276-282: compare(...) is a number, used as a condition
VersionCheckInverted(existingVersion, newVersion) == Compare(existingVersion, newVersion) < 0
\* compare(existing.version ?? '0.0.0', instance.version ?? '0.0.0', '>')
VersionCheck(existingVersion, newVersion) == Compare(existingVersion, newVersion) # 0

\* x ?? '0.0.0'
OrZero(version) == IF version = Nil THEN "0.0.0" ELSE version

Resolved(success, message, pluginName, pluginHash) ==
    [outcome |-> "resolved", success |-> success, message |-> message,
     pluginName |-> pluginName, pluginHash |-> pluginHash]
\* the promise is rejected: installPlugin threw
Rejected == [outcome |-> "rejected", success |-> FALSE, message |-> Nil,
             pluginName |-> Nil, pluginHash |-> 0]

MsgEmpty == "Plugin code is empty"
MsgAlready == "Plugin is already installed"
MsgNewer == "A newer version of the plugin is already installed"
MsgCannotParse == "Plugin cannot be parsed"
MsgFailedInstall == "Failed to install plugin"

\* installPlugin(pluginCode, pluginPath, config) (lines 245-336) run on ps and
\* d: the result, and what ps and d are afterwards
InstallPlugin(ps, d, pluginCode, pluginPath, notCheckVersion, copyOk, app) ==
    LET l == LoadFromCode(pluginCode, pluginPath, app, FreshHash(ps))
        k == FindByName(ps, l.name)
        old == OrZero(ps[k].instance.version)
        new == OrZero(l.instance.version)
        removed == IF k # 0 THEN FilterFrom(ps, [j \in 1..Len(ps) |-> ps[j].hash # ps[k].hash], 1) ELSE ps
        unlinked == IF k # 0 THEN Unlink(d, ps[k].path) ELSE d
        filename == FreshFile(d, ps)
        order == IF k # 0 THEN ps[k].meta.order ELSE Len(removed)
    IN CASE pluginCode.kind = "empty" ->
              [result |-> Resolved(FALSE, MsgEmpty, Nil, 0), plugins |-> ps, disk |-> d]
         [] pluginCode.kind # "empty" /\ FindByHash(ps, l.hash) # 0 ->
              [result |-> Resolved(TRUE, MsgAlready, l.name, l.hash), plugins |-> ps, disk |-> d]
         [] OTHER ->
              IF k # 0 /\ ~notCheckVersion /\ (SemVerOf(old) = <<>> \/ SemVerOf(new) = <<>>)
              THEN [result |-> Rejected, plugins |-> ps, disk |-> d]
              ELSE IF k # 0 /\ ~notCheckVersion /\ VersionCheck(old, new)
              THEN [result |-> Resolved(FALSE, MsgNewer, l.name, l.hash), plugins |-> ps, disk |-> d]
              ELSE IF l.state # "mounted"
              THEN [result |-> Resolved(FALSE, MsgCannotParse, Nil, 0), plugins |-> ps, disk |-> d]
              ELSE IF ~copyOk
              THEN [result |-> Rejected, plugins |-> removed, disk |-> unlinked]
              ELSE [result |-> Resolved(TRUE, Nil, l.name, l.hash),
                    plugins |-> Append(removed, NewEntry(l, PluginDirFile(filename), order)),
                    disk |-> [n \in DOMAIN unlinked \cup {filename} |->
                                 IF n = filename THEN pluginCode ELSE unlinked[n]]]

\* the sources installed and loaded in the model
InstallCodes ==
    {EmptyCode, ThrowingCode, ModuleOf("qq", Nil, Methods, <<>>)}
    \cup {ModuleOf("ext", v, Methods, <<>>) : v \in {Nil, "2.0.0", "3.0.0"}}
SearchInstallCodes == {ModuleOf("qq", Nil, Methods, <<>>), ModuleOf("ext", Nil, Methods, <<>>)}
LoadCodes == {ModuleOf("qq", Nil, Methods, <<>>)}

\* DeviceInfo.getVersion() of the app the registry runs in
HostVersion == "3.0.0"

\* the plugin directory when the app starts: file n holds InitialDirs[..][n]
InitialDirs == {<<>>}

\* readDir(pathConst.pluginPath): the files of d in some order
Listings(d) ==
    {items \in [1..Cardinality(DOMAIN d) -> DOMAIN d] :
        \A i, j \in 1..Cardinality(DOMAIN d) : items[i] = items[j] => i = j}

NoFile == 0     \* no file of the directory fails to be read

\* initialize() (lines 117-149)
Initialize(items, failAt) ==
    /\ IF initialized
       THEN /\ rLast' = [op |-> "initialize", outcome |-> "resolved"]
            /\ UNCHANGED <<plugins, disk, initialized>>
       ELSE \E after \in {InitializeLoop(plugins, disk, items, failAt, appVersion)} :
               /\ plugins' = after.plugins
               /\ disk' = after.disk
               /\ initialized' = ~after.thrown
               /\ rLast' = [op |-> "initialize",
                            outcome |-> IF after.thrown THEN "rejected" ELSE "resolved"]
    /\ UNCHANGED <<builtinPlugins, userDisabled, helperVars, tasks, screen, loaderVars>>

\* loadPlugin(pluginCode, pluginPath) called on its own
LoadPluginCall(pluginCode, pluginPath) ==
    \E after \in {LoadPlugin(plugins, disk, pluginCode, pluginPath, appVersion)} :
       /\ plugins' = after.plugins
       /\ disk' = after.disk
       /\ rLast' = [op |-> "loadPlugin", code |-> pluginCode]
       /\ UNCHANGED <<builtinPlugins, initialized, userDisabled, helperVars, tasks, screen, loaderVars>>

\* installPluginFromLocalFile(pluginPath, config) (lines 203-216); the file
\* holds pluginCode when it can be read
InstallPluginFromLocalFile(pluginCode, notCheckVersion, readOk, copyOk) ==
    \E after \in {IF readOk
                 THEN InstallPlugin(plugins, disk, pluginCode, LocalFile, notCheckVersion,
                                    copyOk, appVersion)
                 ELSE [result |-> Resolved(FALSE, MsgFailedInstall, Nil, 0),
                       plugins |-> plugins, disk |-> disk]} :
       /\ plugins' = after.plugins
       /\ disk' = after.disk
       /\ rLast' = [op |-> "install", code |-> IF readOk THEN pluginCode ELSE None,
                    notCheckVersion |-> notCheckVersion,
                    result |-> after.result]
       /\ UNCHANGED <<builtinPlugins, initialized, userDisabled, helperVars, tasks, screen, loaderVars>>

\* getPluginByName(name) (lines 349-351): its index in getAllPlugins(), or 0
GetPluginByName(name) == FindByName(GetAllPlugins, name)

\* isPluginEnabled(name) (lines 378-381)
IsPluginEnabled(name) ==
    IF GetPluginByName(name) = 0 THEN FALSE ELSE GetAllPlugins[GetPluginByName(name)].meta.enabled

\* setPluginEnabled(name, enabled) (lines 366-372); userDisabled remembers the
\* providers disabled by this call and not enabled by it since
SetPluginEnabled(name, enabled) ==
    LET k == GetPluginByName(name)
        b == Len(builtinPlugins)
    IN /\ IF k = 0
          THEN UNCHANGED <<builtinPlugins, plugins, userDisabled>>
          ELSE /\ IF k <= b
                  THEN /\ builtinPlugins' = [builtinPlugins EXCEPT ![k].meta.enabled = enabled]
                       /\ UNCHANGED plugins
                  ELSE /\ plugins' = [plugins EXCEPT ![k - b].meta.enabled = enabled]
                       /\ UNCHANGED builtinPlugins
               /\ userDisabled' = IF enabled THEN userDisabled \ {name}
                                  ELSE userDisabled \cup {name}
       /\ rLast' = [op |-> "setPluginEnabled"]
       /\ UNCHANGED <<initialized, disk, helperVars, tasks, screen, loaderVars>>

\* the pluginNames argument of search: absent, or a list of names
AllNames == [given |-> FALSE, names |-> {}]
OnlyNames(names) == [given |-> TRUE, names |-> names]

\* the filter of PluginManager.search (part_005 lines 315-321)
SearchSelection(type, pluginNames) ==
    LET all == GetAllPlugins
    IN FilterFrom(all, [j \in 1..Len(all) |->
          /\ all[j].meta.enabled
          /\ (~pluginNames.given \/ all[j].name \in pluginNames.names)
          /\ ("supportedSearchType" \notin DOMAIN all[j].instance
                \/ type \in all[j].instance.supportedSearchType)], 1)

\* an item of result.data as a provider returns it: the provider sets no
\* platform on it, or one of its own choice
ProvidedItems == {[id |-> "1", platform |-> pf] : pf \in {Nil, "other"}}

\* a stamp that keeps the platform the provider set
StampKeepingOwn(item, name) == IF item.platform = Nil THEN [item EXCEPT !.platform = name] ELSE item
\* item.platform = plugin.name (part_005 lines 330-334)
Stamp(item, name) == [item EXCEPT !.platform = name]

\* PluginManager.search(query, page, type, pluginNames) (part_005 lines
\* 308-345); the search of the first plugin called throws when firstThrows,
\* every other search resolves to a result whose data holds item
Search(type, pluginNames, firstThrows, item) ==
    LET selected == SearchSelection(type, pluginNames)
        called == {j \in 1..Len(selected) : "search" \in selected[j].instance.methods}
        threw == IF firstThrows THEN {j \in called : \A i \in called : j <= i} ELSE {}
    IN /\ rLast' = [op |-> "search", type |-> type, pluginNames |-> pluginNames,
                    invoked |-> {[name |-> selected[j].name, hash |-> selected[j].hash] : j \in called},
                    results |-> {selected[j].name : j \in called \ threw},
                    provided |-> item,
                    assigned |-> {[key |-> selected[j].name, producer |-> selected[j].hash,
                                   item |-> Stamp(item, selected[j].name)] : j \in called \ threw}]
       /\ UNCHANGED <<builtinPlugins, plugins, initialized, disk, userDisabled,
                      helperVars, tasks, screen, loaderVars>>

SearchTypes == {"music", "lyric"}
RegistryNames == {"qq", UnknownPlugin}

Init ==
    /\ appVersion = HostVersion
    /\ loaded = None
    /\ builtinPlugins = BuiltinsAfterConstruction
    /\ plugins = <<>>
    /\ initialized = FALSE
    /\ disk \in InitialDirs
    /\ rLast = NoCall
    /\ tasks = <<>>
    /\ screen = NoScreen
    /\ userDisabled = {}
    /\ hPlugins = <<>>
    /\ store = [p \in HPlatformSet |-> None]
    /\ hFiles = <<>>
    /\ hLast = [op |-> "none"]
    /\ sa = SaIdle
    /\ saObs = ObsNone

Next ==
    \/ \E items \in Listings(disk), failAt \in DOMAIN disk \cup {NoFile} : Initialize(items, failAt)
    \/ \E code \in LoadCodes : LoadPluginCall(code, LocalFile)
    \/ \E code \in InstallCodes, notCheckVersion, copyOk \in BOOLEAN :
          InstallPluginFromLocalFile(code, notCheckVersion, TRUE, copyOk)
    \/ \E notCheckVersion \in BOOLEAN :
          InstallPluginFromLocalFile(EmptyCode, notCheckVersion, FALSE, TRUE)
    \/ \E name \in RegistryNames, enabled \in BOOLEAN : SetPluginEnabled(name, enabled)

Spec == Init /\ [][Next]_vars

\* the installs alone
NextInstall ==
    \/ \E code \in InstallCodes, notCheckVersion, copyOk \in BOOLEAN :
          InstallPluginFromLocalFile(code, notCheckVersion, TRUE, copyOk)
    \/ \E notCheckVersion \in BOOLEAN :
          InstallPluginFromLocalFile(EmptyCode, notCheckVersion, FALSE, TRUE)

SpecInstall == Init /\ [][NextInstall]_vars

\* the plugin directory the app starts with: up to MaxDirFiles items, each a
\* provider of 'qq' or 'ext', a source that throws, or no '.js' file
MaxDirFiles == 2
DirCodes == {ModuleOf("qq", Nil, Methods, <<>>), ModuleOf("ext", "3.0.0", Methods, <<>>),
             ThrowingCode, OtherFile}
InitStartup ==
    /\ appVersion = HostVersion
    /\ loaded = None
    /\ builtinPlugins = BuiltinsAfterConstruction
    /\ plugins = <<>>
    /\ initialized = FALSE
    /\ disk \in SeqsUpTo(DirCodes, MaxDirFiles)
    /\ rLast = NoCall
    /\ tasks = <<>>
    /\ screen = NoScreen
    /\ userDisabled = {}
    /\ hPlugins = <<>>
    /\ store = [p \in HPlatformSet |-> None]
    /\ hFiles = <<>>
    /\ hLast = [op |-> "none"]
    /\ sa = SaIdle
    /\ saObs = ObsNone

\* initialize() at any time, before and after installs
StartupInstallCodes == {ModuleOf("qq", Nil, Methods, <<>>)}
NextStartup ==
    \/ \E items \in Listings(disk), failAt \in DOMAIN disk \cup {NoFile} : Initialize(items, failAt)
    \/ \E code \in StartupInstallCodes, copyOk \in BOOLEAN :
          InstallPluginFromLocalFile(code, FALSE, TRUE, copyOk)

SpecStartup == InitStartup /\ [][NextStartup]_vars

(***************************************************************************)
(* installPlugin as overlapping calls (lines 245-336): a call runs to its  *)
(* first await, and goes on when the awaited unlink or copyFile is done.   *)
(***************************************************************************)
MaxTasks == 2       \* the calls in flight together
MaxInstalled == 2   \* no call starts with this many installed plugins

\* the frames of the calls that have not returned
InFlight == {t \in DOMAIN tasks : tasks[t].pc # "done"}

\* nanoid() of loadFromCode: a hash no plugin and no call in flight has
TaskFreshHash ==
    LET used == {builtinPlugins[j].hash : j \in 1..Len(builtinPlugins)}
                \cup {plugins[j].hash : j \in 1..Len(plugins)}
                \cup {tasks[t].l.hash : t \in DOMAIN tasks}
    IN CHOOSE h \in 1..(Cardinality(used) + 1) : h \notin used /\ \A g \in 1..(h - 1) : g \in used

\* nanoid() of line 294: a file name no file, no plugin and no call has
TaskFreshFile ==
    LET used == DOMAIN disk
                \cup {plugins[j].path.n : j \in {i \in 1..Len(plugins) : plugins[i].path.dir = "plugins"}}
                \cup {tasks[t].filename : t \in DOMAIN tasks}
    IN CHOOSE n \in 1..(Cardinality(used) + 1) : n \notin used /\ \A g \in 1..(n - 1) : g \in used

\* lines 245-300: the call numbered t starts and runs until it awaits the
\* unlink (an entry of the name exists and has been taken off the list) or
\* the copy, or returns
InstallTaskStart(t, pluginCode) ==
    /\ t \notin InFlight
    /\ Len(plugins) < MaxInstalled
    /\ LET l == LoadFromCode(pluginCode, LocalFile, appVersion, TaskFreshHash)
           k == FindByName(plugins, l.name)
           existing == IF k # 0 THEN plugins[k] ELSE None
           newer == k # 0 /\ VersionCheck(OrZero(plugins[k].instance.version),
                                          OrZero(l.instance.version))
           returns == newer \/ l.state # "mounted"
           frame == [pc |-> IF returns THEN "done" ELSE IF k # 0 THEN "unlink" ELSE "copy",
                     code |-> pluginCode, l |-> l, existing |-> existing,
                     filename |-> TaskFreshFile,
                     result |-> IF newer THEN Resolved(FALSE, MsgNewer, l.name, l.hash)
                                ELSE IF l.state # "mounted"
                                THEN Resolved(FALSE, MsgCannotParse, Nil, 0)
                                ELSE None,
                     base |-> IF InFlight = {} THEN [plugins |-> plugins, disk |-> disk]
                              ELSE tasks[CHOOSE u \in InFlight : TRUE].base]
       IN /\ tasks' = [u \in InFlight \cup {t} |-> IF u = t THEN frame ELSE tasks[u]]
          /\ plugins' = IF ~returns /\ k # 0
                        THEN FilterFrom(plugins, [j \in 1..Len(plugins) |->
                                           plugins[j].hash # existing.hash], 1)
                        ELSE plugins
    /\ UNCHANGED <<builtinPlugins, initialized, disk, rLast, userDisabled, helperVars, screen, loaderVars>>

\* lines 302-304: the unlink of the old entry's file is done
InstallTaskUnlink(t) ==
    /\ t \in DOMAIN tasks
    /\ tasks[t].pc = "unlink"
    /\ disk' = Unlink(disk, tasks[t].existing.path)
    /\ tasks' = [tasks EXCEPT ![t].pc = "copy"]
    /\ UNCHANGED <<builtinPlugins, plugins, initialized, rLast, userDisabled, helperVars, screen, loaderVars>>

\* lines 308-329: the copy is done, the entry is pushed and the call returns
InstallTaskCopy(t) ==
    /\ t \in DOMAIN tasks
    /\ tasks[t].pc = "copy"
    /\ LET frame == tasks[t]
           order == IF frame.existing # None THEN frame.existing.meta.order ELSE Len(plugins)
       IN /\ disk' = [n \in DOMAIN disk \cup {frame.filename} |->
                         IF n = frame.filename THEN frame.code ELSE disk[n]]
          /\ plugins' = Append(plugins, NewEntry(frame.l, PluginDirFile(frame.filename), order))
          /\ tasks' = [tasks EXCEPT ![t].pc = "done",
                                    ![t].result = Resolved(TRUE, Nil, frame.l.name, frame.l.hash)]
    /\ UNCHANGED <<builtinPlugins, initialized, rLast, userDisabled, helperVars, screen, loaderVars>>

TaskCodes == {ModuleOf("qq", Nil, Methods, <<>>), ModuleOf("ext", Nil, Methods, <<>>)}
NextOverlap ==
    \/ \E t \in 1..MaxTasks, code \in TaskCodes : InstallTaskStart(t, code)
    \/ \E t \in 1..MaxTasks : InstallTaskUnlink(t)
    \/ \E t \in 1..MaxTasks : InstallTaskCopy(t)

SpecOverlap == Init /\ [][NextOverlap]_vars

(***************************************************************************)
(* initialize() as overlapping calls (lines 117-149): a call runs to its   *)
(* next await, of readDir, of readFile or of loadPlugin, and goes on when  *)
(* the awaited promise is settled.                                         *)
(***************************************************************************)
\* the listing items from the first that passes the test of lines 130-134
RECURSIVE SkipOthers(_, _)
SkipOthers(items, d) ==
    IF items # <<>> /\ Head(items) \in DOMAIN d /\ ~IsPluginFile(d[Head(items)])
    THEN SkipOthers(Tail(items), d)
    ELSE items

\* the loop of lines 126-138 at the listing items, on the files d: the call
\* awaits the readFile of the next plugin file, or has thrown because the
\* file is gone, or is through and has set this.initialized
InitTaskAt(frame, items, d) ==
    LET rest == SkipOthers(items, d) IN
    IF rest = <<>> THEN [frame EXCEPT !.pc = "done", !.items = <<>>, !.code = None]
    ELSE IF Head(rest) \notin DOMAIN d
    THEN [frame EXCEPT !.pc = "done", !.items = rest, !.code = None, !.thrown = TRUE]
    ELSE [frame EXCEPT !.pc = "read", !.items = rest, !.code = d[Head(rest)]]

\* lines 118-124: the call numbered t returns at once when the registry is
\* initialized, and awaits readDir otherwise
InitTaskStart(t) ==
    /\ t \notin InFlight
    /\ tasks' = [u \in InFlight \cup {t} |->
                    IF u = t
                    THEN [pc |-> IF initialized THEN "done" ELSE "readdir", items |-> <<>>,
                          code |-> None, thrown |-> FALSE,
                          base |-> IF InFlight = {} THEN [plugins |-> plugins, disk |-> disk]
                                   ELSE tasks[CHOOSE u2 \in InFlight : TRUE].base]
                    ELSE tasks[u]]
    /\ UNCHANGED <<builtinPlugins, plugins, initialized, disk, rLast, userDisabled,
                   helperVars, screen, loaderVars>>

\* lines 124-135: readDir resolved to the listing items
InitTaskListed(t, items) ==
    /\ t \in DOMAIN tasks
    /\ tasks[t].pc = "readdir"
    /\ tasks' = [tasks EXCEPT ![t] = InitTaskAt(tasks[t], items, disk)]
    /\ initialized' = (initialized \/ (tasks'[t].pc = "done" /\ ~tasks'[t].thrown))
    /\ UNCHANGED <<builtinPlugins, plugins, disk, rLast, userDisabled,
                   helperVars, screen, loaderVars>>

\* lines 135-140: readFile resolved, loadPlugin runs on the code, and the
\* loop goes to the next item
InitTaskLoad(t) ==
    /\ t \in DOMAIN tasks
    /\ tasks[t].pc = "read"
    /\ \E after \in {LoadPlugin(plugins, disk, tasks[t].code,
                                PluginDirFile(Head(tasks[t].items)), appVersion)} :
          /\ plugins' = after.plugins
          /\ disk' = after.disk
          /\ tasks' = [tasks EXCEPT ![t] = InitTaskAt(tasks[t], Tail(tasks[t].items), after.disk)]
    /\ initialized' = (initialized \/ (tasks'[t].pc = "done" /\ ~tasks'[t].thrown))
    /\ UNCHANGED <<builtinPlugins, rLast, userDisabled, helperVars, screen, loaderVars>>

NextInitOverlap ==
    \/ \E t \in 1..MaxTasks : InitTaskStart(t)
    \/ \E t \in 1..MaxTasks, items \in Listings(disk) : InitTaskListed(t, items)
    \/ \E t \in 1..MaxTasks : InitTaskLoad(t)

SpecInitOverlap == InitStartup /\ [][NextInitOverlap]_vars

(***************************************************************************)
(* The two install routes: installPluginFromUrl of the registry, and the   *)
(* PluginManager facade over both (part_005 lines 242-263).                *)
(***************************************************************************)
MsgFailedDownload == "Failed to download plugin"

\* the first argument the facade hands to the registry's
\* installPluginFromLocalFile: the object { notCheckVersion }
ObjectPath == [dir |-> "object", n |-> 0]

\* readFile(pluginPath, 'utf8'): whether it resolves; a path that is no
\* string makes it throw
ReadFileResolves(pluginPath, readOk) == pluginPath.dir # "object" /\ readOk

\* PluginRegistry.installPluginFromLocalFile(pluginPath, config) (lines
\* 203-216) run on ps and d, the file at the path the caller means holding
\* pluginCode
InstallFromLocalFile(ps, d, pluginPath, pluginCode, notCheckVersion, readOk, copyOk, app) ==
    IF ReadFileResolves(pluginPath, readOk)
    THEN InstallPlugin(ps, d, pluginCode, pluginPath, notCheckVersion, copyOk, app)
    ELSE [result |-> Resolved(FALSE, MsgFailedInstall, Nil, 0), plugins |-> ps, disk |-> d]

\* PluginRegistry.installPluginFromUrl(url, config) (lines 223-237) run on ps
\* and d, the response's data being pluginCode
InstallFromUrl(ps, d, pluginCode, notCheckVersion, getOk, copyOk, app) ==
    IF getOk
    THEN InstallPlugin(ps, d, pluginCode, UrlPath, notCheckVersion, copyOk, app)
    ELSE [result |-> Resolved(FALSE, MsgFailedDownload, Nil, 0), plugins |-> ps, disk |-> d]

\* PluginManager.installPluginFromLocalFile(_pluginPath, notCheckVersion)
\* (part_005 lines 242-249): the registry is called with { notCheckVersion }
\* as its path and without config
ManagerInstallPluginFromLocalFile(pluginCode, notCheckVersion, copyOk) ==
    \E after \in {InstallFromLocalFile(plugins, disk, ObjectPath, pluginCode, FALSE, TRUE,
                                       copyOk, appVersion)} :
       /\ plugins' = after.plugins
       /\ disk' = after.disk
       /\ rLast' = [op |-> "managerInstallFromLocalFile", code |-> pluginCode,
                    notCheckVersion |-> notCheckVersion, copyOk |-> copyOk,
                    result |-> after.result]
       /\ UNCHANGED <<builtinPlugins, initialized, userDisabled, helperVars, tasks, screen, loaderVars>>

\* PluginManager.installPluginFromUrl(url, notCheckVersion) (part_005 lines
\* 256-263)
ManagerInstallPluginFromUrl(pluginCode, notCheckVersion, getOk, copyOk) ==
    \E after \in {InstallFromUrl(plugins, disk, pluginCode, notCheckVersion, getOk, copyOk,
                                 appVersion)} :
       /\ plugins' = after.plugins
       /\ disk' = after.disk
       /\ rLast' = [op |-> "managerInstallFromUrl", code |-> pluginCode,
                    notCheckVersion |-> notCheckVersion, copyOk |-> copyOk,
                    result |-> after.result]
       /\ UNCHANGED <<builtinPlugins, initialized, userDisabled, helperVars, tasks, screen, loaderVars>>

RouteCodes == {EmptyCode, ModuleOf("qq", Nil, Methods, <<>>),
               ModuleOf("ext", "2.0.0", Methods, <<>>), ModuleOf("ext", "3.0.0", Methods, <<>>)}
NextRoutes ==
    \/ \E code \in RouteCodes, notCheckVersion, copyOk \in BOOLEAN :
          ManagerInstallPluginFromLocalFile(code, notCheckVersion, copyOk)
    \/ \E code \in RouteCodes, notCheckVersion, getOk, copyOk \in BOOLEAN :
          ManagerInstallPluginFromUrl(code, notCheckVersion, getOk, copyOk)
    \/ \E code \in RouteCodes, notCheckVersion, copyOk \in BOOLEAN :
          InstallPluginFromLocalFile(code, notCheckVersion, TRUE, copyOk)

SpecRoutes == Init /\ [][NextRoutes]_vars

(***************************************************************************)
(* Adding and removing plugins of the helper PluginManager                 *)
(* (helpers/PluginManager.ts).                                             *)
(***************************************************************************)
MaxFiles == 3       \* the plugins directory holds the file names 1..MaxFiles
HintFile == 1       \* the file name a filePathHint ends in

\* a stored string that JSON.parse rejects
Corrupt == [corrupt |-> TRUE]

\* a loadPluginConfig that never reads the stored configuration
LoadPluginConfigDefault(st, pluginId) == DefaultConfig

\* loadPluginConfig(pluginId) (lines 39-51): the stored configuration, or the
\* default one when the key is absent or its string cannot be parsed
LoadPluginConfig(st, pluginId) ==
    IF st[pluginId] # None /\ st[pluginId] # Corrupt THEN st[pluginId] ELSE DefaultConfig

\* `${pluginId}_${Date.now()}.js` (lines 178-179): a name that no file has and
\* no loaded plugin was read from, and that is no hint
HFreshFile ==
    LET used == DOMAIN hFiles \cup {hPlugins[j].filePath : j \in 1..Len(hPlugins)} \cup {HintFile}
    IN CHOOSE n \in 1..(Cardinality(used) + 1) : n \notin used /\ \A g \in 1..(n - 1) : g \in used

\* FileSystem.writeAsStringAsync(actualFilePath, scriptContent)
WriteAsString(files, fileName, platform) ==
    [n \in DOMAIN files \cup {fileName} |-> IF n = fileName THEN platform ELSE files[n]]

\* FileSystem.deleteAsync(filePath, { idempotent: true })
DeleteAsync(files, filePath) == [n \in DOMAIN files \ {filePath} |-> files[n]]

\* this.plugins.set(pluginId, managedPlugin): a known key keeps its place
MapSet(ps, managedPlugin) ==
    LET idx == FindIndex([j \in 1..Len(ps) |-> ps[j].platform = managedPlugin.platform])
    IN IF idx # 0 THEN [ps EXCEPT ![idx] = managedPlugin] ELSE Append(ps, managedPlugin)

\* a removal that leaves the persisted configuration in place
PersistRemoveKept(st, pluginId) == st
\* PersistStatus.remove('plugin_config_' + pluginId)
PersistRemove(st, pluginId) == [st EXCEPT ![pluginId] = None]

\* a catch that leaves the string that cannot be parsed
DiscardCorruptedNot(st, pluginId) == st
\* the catch of loadPluginConfig (lines 45-49): the key of a string that
\* cannot be parsed is removed
DiscardCorrupted(st, pluginId) ==
    IF st[pluginId] = Corrupt THEN PersistRemove(st, pluginId) ELSE st

\* the loop of loadPlugins() (lines 63-98) over the file names items, from
\* the map ps and the keys st; the file failAt cannot be read or evaluated,
\* and a script of platform "" sets no platform
RECURSIVE LoadPluginsLoop(_, _, _, _)
LoadPluginsLoop(ps, st, items, failAt) ==
    IF items = <<>> THEN [plugins |-> ps, store |-> st]
    ELSE LET filePath == Head(items)
             pluginId == hFiles[filePath]
         IN IF filePath = failAt \/ pluginId = ""
            THEN LoadPluginsLoop(ps, st, Tail(items), failAt)
            ELSE LoadPluginsLoop(
                   MapSet(ps, [platform |-> pluginId, filePath |-> filePath,
                               instance |-> [search |-> TRUE],
                               userConfig |-> LoadPluginConfig(st, pluginId)]),
                   DiscardCorrupted(st, pluginId), Tail(items), failAt)

\* readDirectoryAsync(PLUGINS_DIRECTORY): the file names in ascending order
RECURSIVE ReadDirectory(_)
ReadDirectory(names) ==
    IF names = {} THEN <<>>
    ELSE LET n == CHOOSE m \in names : \A k \in names : m <= k
         IN <<n>> \o ReadDirectory(names \ {n})

\* loadPlugins() (lines 58-102)
HLoadPlugins(failAt) ==
    \E after \in {LoadPluginsLoop(<<>>, store, ReadDirectory(DOMAIN hFiles), failAt)} :
       /\ hPlugins' = after.plugins
       /\ store' = after.store
       /\ hLast' = [op |-> "loadPlugins", failAt |-> failAt, outcome |-> "resolved"]
       /\ UNCHANGED <<hFiles, sa, saObs, tasks, screen, loaderVars, registryVars>>

\* addPluginFromScript(scriptContent, filePathHint) (lines 160-211) for a
\* script whose module.exports.platform is platform ("" when it sets none);
\* hint is NoFile when no filePathHint is given
HAddPluginFromScript(platform, hint, writeOk, saveOk) ==
    LET fileName == IF hint # NoFile THEN hint ELSE HFreshFile
        userConfig == LoadPluginConfig(store, platform)
        managedPlugin == [platform |-> platform, filePath |-> fileName,
                          instance |-> [search |-> TRUE], userConfig |-> userConfig]
    IN /\ fileName <= MaxFiles
       /\ IF platform = "" \/ ~writeOk
          THEN /\ hLast' = [op |-> "addPluginFromScript", pluginId |-> platform,
                            outcome |-> "rejected"]
               /\ UNCHANGED <<hPlugins, store, hFiles>>
          ELSE /\ hFiles' = WriteAsString(hFiles, fileName, platform)
               /\ hPlugins' = MapSet(hPlugins, managedPlugin)
               /\ store' = SavePluginConfig(store, platform, userConfig, saveOk)
               /\ hLast' = [op |-> "addPluginFromScript", pluginId |-> platform,
                            outcome |-> IF saveOk THEN "resolved" ELSE "rejected"]
       /\ UNCHANGED <<sa, saObs, tasks, screen, loaderVars, registryVars>>

\* removePlugin(pluginId) (lines 213-229); deleteOk and removeOk say whether
\* the deletion of the file and the removal of the key succeed
HRemovePlugin(pluginId, deleteOk, removeOk) ==
    LET idx == HIndexOf(pluginId) IN
    /\ IF idx = 0
       THEN /\ hLast' = [op |-> "removePlugin", pluginId |-> pluginId, existed |-> FALSE,
                         filePath |-> NoFile, configBefore |-> None, outcome |-> "resolved"]
            /\ UNCHANGED <<hPlugins, store, hFiles>>
       ELSE /\ hFiles' = IF deleteOk THEN DeleteAsync(hFiles, hPlugins[idx].filePath) ELSE hFiles
            /\ store' = IF deleteOk /\ removeOk THEN PersistRemove(store, pluginId) ELSE store
            /\ hPlugins' = IF deleteOk /\ removeOk
                           THEN FilterFrom(hPlugins, [j \in 1..Len(hPlugins) |-> j # idx], 1)
                           ELSE hPlugins
            /\ hLast' = [op |-> "removePlugin", pluginId |-> pluginId, existed |-> TRUE,
                         filePath |-> hPlugins[idx].filePath,
                         configBefore |-> hPlugins[idx].userConfig,
                         outcome |-> IF deleteOk /\ removeOk THEN "resolved" ELSE "rejected"]
    /\ UNCHANGED <<sa, saObs, tasks, screen, loaderVars, registryVars>>

\* the constructor's loadPlugins() found the one file of A; its persisted
\* configuration is absent or disables it
RemovablePlatforms == {"A", "B"}
InitRemove ==
    /\ \E disabled \in BOOLEAN :
         /\ hPlugins = <<[platform |-> "A", filePath |-> HintFile, instance |-> [search |-> TRUE],
                          userConfig |-> [DefaultConfig EXCEPT !.isEnabled = ~disabled]]>>
         /\ store = [p \in HPlatformSet |->
                IF p = "A" /\ disabled THEN [DefaultConfig EXCEPT !.isEnabled = FALSE] ELSE None]
    /\ hFiles = <<"A">>
    /\ hLast = [op |-> "none"]
    /\ sa = SaIdle
    /\ saObs = ObsNone
    /\ appVersion = "3.0.0"
    /\ loaded = None
    /\ InitRegistryIdle

NextRemove ==
    \/ \E platform \in RemovablePlatforms \cup {""}, hint \in {NoFile, HintFile},
          writeOk, saveOk \in BOOLEAN :
          HAddPluginFromScript(platform, hint, writeOk, saveOk)
    \/ \E p \in RemovablePlatforms \cup {UnknownPlugin}, deleteOk, removeOk \in BOOLEAN :
          HRemovePlugin(p, deleteOk, removeOk)
    \/ \E p \in RemovablePlatforms, b \in BOOLEAN : HSetPluginEnabled(p, b, TRUE)

SpecRemove == InitRemove /\ [][NextRemove]_vars

\* the PluginManager as constructed, its loadPlugins() not yet run: the
\* directory holds a script of A, one of B, one that sets no platform and
\* one of C; each key is absent, unparseable, or a disabling configuration
ReloadFiles == <<"A", "B", "", "C">>
InitReload ==
    /\ hPlugins = <<>>
    /\ store \in [HPlatformSet -> {None, Corrupt, [DefaultConfig EXCEPT !.isEnabled = FALSE]}]
    /\ hFiles = ReloadFiles
    /\ hLast = [op |-> "none"]
    /\ sa = SaIdle
    /\ saObs = ObsNone
    /\ appVersion = "3.0.0"
    /\ loaded = None
    /\ InitRegistryIdle

NextReload ==
    \/ \E failAt \in DOMAIN hFiles \cup {NoFile} : HLoadPlugins(failAt)
    \/ \E p \in HPlatformSet, b \in BOOLEAN : HSetPluginEnabled(p, b, TRUE)

SpecReload == InitReload /\ [][NextReload]_vars

(***************************************************************************)
(* loadPlugins as overlapping calls (lines 58-102): a call runs to its     *)
(* next await and goes on when the awaited promise is settled.  A          *)
(* PersistStatus.get or set takes effect whole, at the moment it is        *)
(* called, so that setPluginEnabled and setPluginUserVariable act in one   *)
(* step.                                                                   *)
(***************************************************************************)
\* the loop of lines 63-98 at the file names items: readAsStringAsync of the
\* first is awaited, or the loop is over and the call returns
LoadTaskAt(items) ==
    [pc |-> IF items = <<>> THEN "done" ELSE "read", items |-> items, configString |-> None]

\* line 59: the call numbered t starts and awaits ensurePluginsDirectory()
LoadTaskStart(t) ==
    /\ t \notin InFlight
    /\ tasks' = [u \in InFlight \cup {t} |->
                    IF u = t THEN [pc |-> "ensure", items |-> <<>>, configString |-> None]
                    ELSE tasks[u]]
    /\ UNCHANGED <<hPlugins, store, hLast, hFiles, sa, saObs, screen, loaderVars, registryVars>>

\* lines 60-62: the map is cleared and readDirectoryAsync is awaited
LoadTaskClear(t) ==
    /\ t \in DOMAIN tasks
    /\ tasks[t].pc = "ensure"
    /\ hPlugins' = <<>>
    /\ tasks' = [tasks EXCEPT ![t] = [pc |-> "listed", items |-> ReadDirectory(DOMAIN hFiles),
                                      configString |-> None]]
    /\ UNCHANGED <<store, hLast, hFiles, sa, saObs, screen, loaderVars, registryVars>>

\* lines 62-67: the loop starts on the file names the directory gave
LoadTaskListed(t) ==
    /\ t \in DOMAIN tasks
    /\ tasks[t].pc = "listed"
    /\ tasks' = [tasks EXCEPT ![t] = LoadTaskAt(tasks[t].items)]
    /\ UNCHANGED <<hPlugins, store, hLast, hFiles, sa, saObs, screen, loaderVars, registryVars>>

\* lines 67-84 and 41: the script is evaluated; one without a platform is
\* skipped, else PersistStatus.get of the platform's key is awaited
LoadTaskRead(t) ==
    /\ t \in DOMAIN tasks
    /\ tasks[t].pc = "read"
    /\ LET pluginId == hFiles[Head(tasks[t].items)] IN
         tasks' = [tasks EXCEPT ![t] =
                      IF pluginId = "" THEN LoadTaskAt(Tail(tasks[t].items))
                      ELSE [pc |-> "config", items |-> tasks[t].items,
                            configString |-> store[pluginId]]]
    /\ UNCHANGED <<hPlugins, store, hLast, hFiles, sa, saObs, screen, loaderVars, registryVars>>

\* lines 42-50 and 84-93: the string that was read is parsed, or discarded
\* for the default, the entry is set and the loop goes to the next file
LoadTaskConfig(t) ==
    /\ t \in DOMAIN tasks
    /\ tasks[t].pc = "config"
    /\ LET filePath == Head(tasks[t].items)
           pluginId == hFiles[filePath]
           configString == tasks[t].configString
           userConfig == LoadPluginConfig([store EXCEPT ![pluginId] = configString], pluginId)
       IN /\ hPlugins' = MapSet(hPlugins, [platform |-> pluginId, filePath |-> filePath,
                                           instance |-> [search |-> TRUE],
                                           userConfig |-> userConfig])
          /\ store' = IF configString = Corrupt THEN PersistRemove(store, pluginId) ELSE store
          /\ tasks' = [tasks EXCEPT ![t] = LoadTaskAt(Tail(tasks[t].items))]
    /\ UNCHANGED <<hLast, hFiles, sa, saObs, screen, loaderVars, registryVars>>

NextHelperTasks ==
    \/ \E t \in 1..MaxTasks : LoadTaskStart(t)
    \/ \E t \in 1..MaxTasks : LoadTaskClear(t)
    \/ \E t \in 1..MaxTasks : LoadTaskListed(t)
    \/ \E t \in 1..MaxTasks : LoadTaskRead(t)
    \/ \E t \in 1..MaxTasks : LoadTaskConfig(t)
    \/ \E p \in HPlatformSet, b \in BOOLEAN : HSetPluginEnabled(p, b, TRUE)
    \/ \E p \in HPlatformSet, k \in VarKeys, v \in VarValues : HSetPluginUserVariable(p, k, v, TRUE)

\* a plugins directory that holds the file of A only
InitHelperOne == InitHelperWith(SubSeq(HPlatforms, 1, 1))

SpecHelperTasks == InitHelperOne /\ [][NextHelperTasks]_vars

(***************************************************************************)
(* Replacing a provider by a new copy of its platform: installPlugin and   *)
(* loadPlugin of the registry on an installed 'ext' the user may have      *)
(* disabled, addPluginFromScript of the helper on a configured 'A'.        *)
(***************************************************************************)
ReplaceCodes == {ModuleOf("ext", Nil, Methods, <<>>)}
NextReplace ==
    \/ \E code \in ReplaceCodes : InstallPluginFromLocalFile(code, FALSE, TRUE, TRUE)
    \/ \E code \in ReplaceCodes : LoadPluginCall(code, LocalFile)
    \/ \E enabled \in BOOLEAN : SetPluginEnabled("ext", enabled)
    \/ \E hint \in {NoFile, HintFile} : HAddPluginFromScript("A", hint, TRUE, TRUE)
    \/ \E b \in BOOLEAN : HSetPluginEnabled("A", b, TRUE)
    \/ \E k \in VarKeys, v \in VarValues : HSetPluginUserVariable("A", k, v, TRUE)

SpecReplace == InitRemove /\ [][NextReplace]_vars

\* adds and removals that succeed, and loadPlugins() run again as at a
\* restart of the application
NextRestart ==
    \/ \E platform \in RemovablePlatforms, hint \in {NoFile, HintFile} :
          HAddPluginFromScript(platform, hint, TRUE, TRUE)
    \/ \E p \in RemovablePlatforms : HRemovePlugin(p, TRUE, TRUE)
    \/ HLoadPlugins(NoFile)

SpecRestart == InitRemove /\ [][NextRestart]_vars

(***************************************************************************)
(* RadioScreen (app/(tabs)/radio/index.tsx): the tag the user selected,    *)
(* the sheets shown for it, and the calls of loadSheetsForTag in flight.   *)
(***************************************************************************)
MaxPages == 2       \* onEndReached asks for no page beyond this one

\* the tags the screen shows
RadioTags == {[id |-> "t1", platform |-> "A"], [id |-> "t2", platform |-> "A"]}

\* what fetchPluginRecommendSheetsByTag(tag, page, platform) resolves to
\* (pluginDataFetchers.ts lines 267-306): null, or the provider's page of
\* sheets of that tag with its isEnd, which may be missing
SheetsByTagOutcomes(tag, page) ==
    {None} \cup {[data |-> <<[id |-> <<tag.id, page>>, platform |-> tag.platform]>>,
                  isEnd |-> e] : e \in {"true", "false", Nil}}

\* the screen as mounted, its tags loaded and none selected (lines 22-29)
RadioMounted ==
    [name |-> "radio", selectedTag |-> None, sheets |-> <<>>, isLoadingSheets |-> FALSE,
     currentPageSheets |-> 1, hasMoreSheets |-> TRUE]

\* loadSheetsForTag(tag, pageToLoad, isInitialLoad) up to its await (lines
\* 71-82), as the call numbered t, on the screen state sc
LoadSheetsForTagStart(t, sc, tag, pageToLoad, isInitialLoad) ==
    /\ t \notin InFlight
    /\ IF ~sc.hasMoreSheets /\ ~isInitialLoad
       THEN /\ screen' = sc
            /\ tasks' = [u \in InFlight |-> tasks[u]]
       ELSE /\ screen' = IF isInitialLoad
                         THEN [sc EXCEPT !.isLoadingSheets = TRUE, !.sheets = <<>>,
                                         !.currentPageSheets = 1, !.hasMoreSheets = TRUE]
                         ELSE [sc EXCEPT !.isLoadingSheets = TRUE]
            /\ tasks' = [u \in InFlight \cup {t} |->
                            IF u = t THEN [pc |-> "fetch", tag |-> tag, pageToLoad |-> pageToLoad,
                                           isInitialLoad |-> isInitialLoad]
                            ELSE tasks[u]]
    /\ UNCHANGED <<helperVars, loaderVars, registryVars>>

\* handleTagSelect(tag) (lines 98-101)
HandleTagSelect(t, tag) ==
    /\ screen.name = "radio"
    /\ LoadSheetsForTagStart(t, [screen EXCEPT !.selectedTag = tag], tag, 1, TRUE)

\* onEndReached of the list of sheets (line 168)
SheetsEndReached(t) ==
    /\ screen.name = "radio"
    /\ screen.selectedTag # None
    /\ screen.currentPageSheets <= MaxPages
    /\ LoadSheetsForTagStart(t, screen, screen.selectedTag, screen.currentPageSheets, FALSE)

\* lines 82-94: the fetch of the call numbered t resolves to result
LoadSheetsForTagSettle(t, result) ==
    /\ t \in InFlight
    /\ tasks[t].pc = "fetch"
    /\ result \in SheetsByTagOutcomes(tasks[t].tag, tasks[t].pageToLoad)
    /\ LET f == tasks[t] IN
         screen' = IF result # None
                   THEN [screen EXCEPT
                           !.sheets = IF f.isInitialLoad THEN result.data
                                      ELSE screen.sheets \o result.data,
                           !.hasMoreSheets = (result.isEnd = "false"),
                           !.currentPageSheets = f.pageToLoad + 1,
                           !.isLoadingSheets = FALSE]
                   ELSE IF f.pageToLoad = 1
                   THEN [screen EXCEPT !.sheets = <<>>, !.hasMoreSheets = FALSE,
                                       !.isLoadingSheets = FALSE]
                   ELSE [screen EXCEPT !.hasMoreSheets = FALSE, !.isLoadingSheets = FALSE]
    /\ tasks' = [tasks EXCEPT ![t] = [pc |-> "done"]]
    /\ UNCHANGED <<helperVars, loaderVars, registryVars>>

\* the screen is mounted over a registry and a helper as constructed
InitRadio ==
    /\ appVersion = HostVersion
    /\ loaded = None
    /\ builtinPlugins = BuiltinsAfterConstruction
    /\ plugins = <<>>
    /\ initialized = FALSE
    /\ disk = <<>>
    /\ rLast = NoCall
    /\ userDisabled = {}
    /\ hPlugins = <<>>
    /\ store = [p \in HPlatformSet |-> None]
    /\ hFiles = <<>>
    /\ hLast = [op |-> "none"]
    /\ sa = SaIdle
    /\ saObs = ObsNone
    /\ tasks = <<>>
    /\ screen = RadioMounted
NextRadio ==
    \/ \E t \in 1..MaxTasks, tag \in RadioTags : HandleTagSelect(t, tag)
    \/ \E t \in 1..MaxTasks : SheetsEndReached(t)
    \/ \E t \in 1..MaxTasks, result \in UNION {SheetsByTagOutcomes(tag, page) :
                                                 tag \in RadioTags, page \in 1..MaxPages} :
          LoadSheetsForTagSettle(t, result)

SpecRadio == InitRadio /\ [][NextRadio]_vars

(***************************************************************************)
(* TopListDetailScreen (app/(tabs)/(songs)/topListDetail.tsx) for one      *)
(* chart: its React state, the pages it has asked for (requested) and how  *)
(* many it had asked for when a page first came back as the last one       *)
(* (endedAt, 0 while none has).  A handler runs on the state the handlers  *)
(* before it have committed.                                               *)
(***************************************************************************)
MaxChartPages == 4  \* handleLoadMore asks for no page beyond this one

\* what fetchPluginTopListDetail(topListItem, page) resolves to
\* (pluginDataFetchers.ts lines 205-233): null, or the provider's result
\* with a musicList, empty or of the page's item, and its isEnd
TopListDetailOutcomes(page) ==
    {None} \cup {[musicList |-> m, isEnd |-> e] :
                    m \in {<<>>, <<[id |-> <<page, 1>>]>>,
                           <<[id |-> <<page, 1>>], [id |-> <<page, 2>>]>>},
                    e \in IsEndValues}

\* the screen as mounted, its effect not yet run (lines 16-21)
TopListMounted ==
    [name |-> "topList", effectRan |-> FALSE, musicList |-> <<>>, loading |-> TRUE,
     error |-> Nil, currentPage |-> 1, isFetchingMore |-> FALSE, hasMoreToLoad |-> TRUE,
     requested |-> <<>>, endedAt |-> 0]

\* loadTopListDetails(pageToFetch) up to its await (lines 23-42), as the
\* call numbered t, on the screen state sc
LoadTopListDetailsStart(t, sc, pageToFetch) ==
    /\ t \notin InFlight
    /\ screen' = [sc EXCEPT !.loading = IF pageToFetch = 1 THEN TRUE ELSE sc.loading,
                            !.isFetchingMore = IF pageToFetch = 1 THEN sc.isFetchingMore ELSE TRUE,
                            !.error = Nil,
                            !.requested = Append(sc.requested, pageToFetch)]
    /\ tasks' = [u \in InFlight \cup {t} |->
                    IF u = t THEN [pc |-> "fetch", pageToFetch |-> pageToFetch] ELSE tasks[u]]
    /\ UNCHANGED <<helperVars, loaderVars, registryVars>>

\* the effect of lines 63-65, run once for the chart
TopListEffect(t) ==
    /\ screen.name = "topList"
    /\ ~screen.effectRan
    /\ LoadTopListDetailsStart(t, [screen EXCEPT !.effectRan = TRUE], 1)

\* a test that lets every call of handleLoadMore through
CanLoadMoreAlways(sc) == TRUE
\* !isFetchingMore && hasMoreToLoad (line 68)
CanLoadMore(sc) == ~sc.isFetchingMore /\ sc.hasMoreToLoad

\* handleLoadMore (lines 67-75), called by the list's onEndReached; the list
\* is rendered when neither the first page is loading nor an error is shown
\* (lines 83-97)
HandleLoadMore(t) ==
    /\ screen.name = "topList"
    /\ ~(screen.loading /\ screen.currentPage = 1)
    /\ screen.error = Nil
    /\ CanLoadMore(screen)
    /\ screen.currentPage < MaxChartPages
    /\ LoadTopListDetailsStart(t, [screen EXCEPT !.currentPage = screen.currentPage + 1],
                               screen.currentPage + 1)

\* lines 42-60: the fetch of the call numbered t resolves to result
LoadTopListDetailsSettle(t, result) ==
    /\ t \in InFlight
    /\ tasks[t].pc = "fetch"
    /\ result \in TopListDetailOutcomes(tasks[t].pageToFetch)
    /\ LET pageToFetch == tasks[t].pageToFetch
           filled == result # None /\ result.musicList # <<>>
           last == ~filled \/ result.isEnd = "true"
           sc == IF filled
                 THEN [screen EXCEPT
                         !.musicList = IF pageToFetch = 1 THEN result.musicList
                                       ELSE screen.musicList \o result.musicList,
                         !.hasMoreToLoad = IF result.isEnd = "true" THEN FALSE
                                           ELSE screen.hasMoreToLoad]
                 ELSE IF pageToFetch = 1
                 THEN [screen EXCEPT !.musicList = <<>>, !.hasMoreToLoad = FALSE]
                 ELSE [screen EXCEPT !.hasMoreToLoad = FALSE]
       IN screen' = [sc EXCEPT
                       !.loading = IF pageToFetch = 1 THEN FALSE ELSE sc.loading,
                       !.isFetchingMore = IF pageToFetch = 1 THEN sc.isFetchingMore ELSE FALSE,
                       !.endedAt = IF last /\ sc.endedAt = 0 THEN Len(sc.requested)
                                   ELSE sc.endedAt]
    /\ tasks' = [tasks EXCEPT ![t] = [pc |-> "done"]]
    /\ UNCHANGED <<helperVars, loaderVars, registryVars>>

\* the screen is mounted for a chart of a loaded provider
InitTopListDetail ==
    /\ appVersion = HostVersion
    /\ loaded = None
    /\ builtinPlugins = BuiltinsAfterConstruction
    /\ plugins = <<>>
    /\ initialized = FALSE
    /\ disk = <<>>
    /\ rLast = NoCall
    /\ userDisabled = {}
    /\ hPlugins = <<>>
    /\ store = [p \in HPlatformSet |-> None]
    /\ hFiles = <<>>
    /\ hLast = [op |-> "none"]
    /\ sa = SaIdle
    /\ saObs = ObsNone
    /\ tasks = <<>>
    /\ screen = TopListMounted

NextTopListDetail ==
    \/ \E t \in 1..MaxTasks : TopListEffect(t)
    \/ \E t \in 1..MaxTasks : HandleLoadMore(t)
    \/ \E t \in 1..MaxTasks, result \in UNION {TopListDetailOutcomes(page) : page \in 1..MaxChartPages} :
          LoadTopListDetailsSettle(t, result)

SpecTopListDetail == InitTopListDetail /\ [][NextTopListDetail]_vars

(***************************************************************************)
(* Single-provider operations: PluginManager.getMediaSource and            *)
(* getAlbumInfo (plugins/core/PluginManager.ts), fetchPluginAlbumInfo      *)
(* (helpers/pluginDataFetchers.ts).                                        *)
(***************************************************************************)
\* the items handed to the operations: a platform, and a url or none
ItemPlatforms == {"local", "qq", "ext", UnknownPlugin}
Items == [platform : ItemPlatforms, url : {Nil, "u"}]

\* the operation lets the provider's error through
AfterCatchRethrown(op) == "raised"
\* what the operation returns after its catch (part_005 lines 368-372, 451-455)
AfterCatch(op) == "null"

\* no fallback to the item's own url
FallbackNone(musicItem) == "null"
\* else if (musicItem.url) return { url: musicItem.url } (part_005 lines
\* 365-367), null otherwise (line 372)
Fallback(musicItem) == IF musicItem.url # Nil THEN "url" ELSE "null"

\* the entry the call is routed to, as a set: empty when no method is called
Routed(k, method) ==
    IF k # 0 /\ GetAllPlugins[k].meta.enabled /\ method \in GetAllPlugins[k].instance.methods
    THEN {k} ELSE {}

\* PluginManager.getMediaSource(musicItem, quality) (part_005 lines 352-373);
\* outcome is what the provider's getMediaSource does when it is called
GetMediaSource(musicItem, outcome) ==
    LET k == GetPluginByName(musicItem.platform)
        routed == Routed(k, "getMediaSource")
    IN /\ outcome \in IF routed = {} THEN {"none"} ELSE GetMediaSourceOf(GetAllPlugins[k].instance)
       /\ rLast' = [op |-> "getMediaSource", item |-> musicItem,
                    invoked |-> {[name |-> GetAllPlugins[j].name, hash |-> GetAllPlugins[j].hash] : j \in routed},
                    outcome |-> outcome,
                    result |-> CASE k = 0 -> "null"
                                 [] k # 0 /\ ~GetAllPlugins[k].meta.enabled -> "null"
                                 [] routed # {} /\ outcome = "throw" -> AfterCatch("getMediaSource")
                                 [] routed # {} /\ outcome # "throw" -> outcome
                                 [] OTHER -> Fallback(musicItem)]
       /\ UNCHANGED <<builtinPlugins, plugins, initialized, disk, userDisabled,
                      helperVars, tasks, screen, loaderVars>>

\* PluginManager.getAlbumInfo(albumItem, page) (part_005 lines 428-456)
GetAlbumInfo(albumItem, outcome) ==
    LET k == GetPluginByName(albumItem.platform)
        routed == Routed(k, "getAlbumInfo")
    IN /\ outcome \in IF routed = {} THEN {"none"} ELSE GetAlbumInfoOf(GetAllPlugins[k].instance)
       /\ rLast' = [op |-> "getAlbumInfo", item |-> albumItem,
                    invoked |-> {[name |-> GetAllPlugins[j].name, hash |-> GetAllPlugins[j].hash] : j \in routed},
                    outcome |-> outcome,
                    result |-> CASE k = 0 -> "null"
                                 [] k # 0 /\ ~GetAllPlugins[k].meta.enabled -> "null"
                                 [] routed # {} /\ outcome = "throw" -> AfterCatch("getAlbumInfo")
                                 [] routed # {} /\ outcome # "throw" -> outcome
                                 [] OTHER -> "null"]
       /\ UNCHANGED <<builtinPlugins, plugins, initialized, disk, userDisabled,
                      helperVars, tasks, screen, loaderVars>>

\* fetchPluginAlbumInfo(albumItemBase, page) (pluginDataFetchers.ts lines
\* 8-36); platform '' is an item without platform
FetchPluginAlbumInfo(platform, outcome) ==
    LET plugin == HGetPlugin(platform)
        calls == /\ platform # ""
                 /\ HIndexOf(platform) # 0
                 /\ plugin.instance.getAlbumInfo
                 /\ plugin.userConfig.isEnabled # FALSE
    IN /\ outcome \in IF calls THEN {"null", "album", "throw"} ELSE {"none"}
       /\ hLast' = [op |-> "fetchPluginAlbumInfo", platform |-> platform,
                    invoked |-> IF calls THEN {platform} ELSE {},
                    outcome |-> outcome,
                    result |-> IF calls /\ outcome # "throw" THEN outcome ELSE "null"]
       /\ UNCHANGED <<hPlugins, store, hFiles, sa, saObs, tasks, screen, loaderVars, registryVars>>

\* the sources installed here: a provider with no method, and one with all
SingleInstallCodes == {ModuleOf("ext", Nil, {}, <<>>), ModuleOf("ext", Nil, Methods, <<>>)}

\* the registry as constructed; the helper PluginManager with A (enabled),
\* B (enabled, no getAlbumInfo) and C (disabled by its persisted config)
InitSingle ==
    /\ appVersion = HostVersion
    /\ loaded = None
    /\ builtinPlugins = BuiltinsAfterConstruction
    /\ plugins = <<>>
    /\ initialized = FALSE
    /\ disk = <<>>
    /\ rLast = NoCall
    /\ tasks = <<>>
    /\ screen = NoScreen
    /\ userDisabled = {}
    /\ hPlugins = [j \in 1..Len(HPlatforms) |->
           [platform |-> HPlatforms[j], filePath |-> j,
            instance |-> [search |-> TRUE, getAlbumInfo |-> HPlatforms[j] # "B"],
            userConfig |-> [DefaultConfig EXCEPT !.isEnabled = HPlatforms[j] # "C"]]]
    /\ store = [p \in HPlatformSet |->
           IF p = "C" THEN [DefaultConfig EXCEPT !.isEnabled = FALSE] ELSE None]
    /\ hFiles = HPlatforms
    /\ hLast = [op |-> "none"]
    /\ sa = SaIdle
    /\ saObs = ObsNone

NextSingle ==
    \/ \E code \in SingleInstallCodes : InstallPluginFromLocalFile(code, FALSE, TRUE, TRUE)
    \/ \E name \in {"qq", "ext"}, enabled \in BOOLEAN : SetPluginEnabled(name, enabled)
    \/ \E item \in Items, outcome \in {"none", "null", "source", "throw"} :
          GetMediaSource(item, outcome)
    \/ \E item \in Items, outcome \in {"none", "null", "album", "throw"} :
          GetAlbumInfo(item, outcome)
    \/ \E platform \in HPlatformSet \cup {UnknownPlugin, ""},
          outcome \in {"none", "null", "album", "throw"} :
          FetchPluginAlbumInfo(platform, outcome)

SpecSingle == InitSingle /\ [][NextSingle]_vars

(***************************************************************************)
(* Imports through one provider: importMusicItemFromPlugin and             *)
(* importMusicSheetFromPlugin (helpers/pluginDataFetchers.ts).             *)
(***************************************************************************)
\* the items a provider's import returns: without platform, with an empty
\* one, or with one of the provider's choice
ImportedItems == [id : {"1"}, platform : {Nil, "", "other"}]

\* what the provider's method did: it was not called, it threw, it resolved
\* to null, or it resolved to items
NotCalled == [kind |-> "none", items |-> <<>>]
Threw == [kind |-> "throw", items |-> <<>>]
ResolvedNull == [kind |-> "null", items |-> <<>>]
ResolvedItems(items) == [kind |-> "items", items |-> items]
ImportOutcomes(n) ==
    {Threw, ResolvedNull} \cup {ResolvedItems(items) : items \in SeqsUpTo(ImportedItems, n) \ {<<>>}}

\* an import that returns the items as the provider made them
StampIfMissingNever(item, platform) == item
\* if (!item.platform) item.platform = platform (lines 118-120, 154-158)
StampIfMissing(item, platform) ==
    IF item.platform \in {Nil, ""} THEN [item EXCEPT !.platform = platform] ELSE item

\* the body shared by the two imports (lines 108-136, 143-173) for the
\* method of that name: what hLast records of the call
ImportCall(op, method, platform, outcome) ==
    LET plugin == HGetPlugin(platform)
        calls == /\ platform # ""
                 /\ HIndexOf(platform) # 0
                 /\ plugin.instance[method]
                 /\ plugin.userConfig.isEnabled # FALSE
    IN [op |-> op, platform |-> platform,
        invoked |-> IF calls THEN {plugin.platform} ELSE {},
        outcome |-> outcome,
        result |-> IF calls /\ outcome.kind = "items"
                   THEN ResolvedItems([j \in 1..Len(outcome.items) |->
                                          StampIfMissing(outcome.items[j], platform)])
                   ELSE ResolvedNull]

\* importMusicItemFromPlugin(platform, urlLike) (lines 104-136): the
\* provider resolves to one item
ImportMusicItemFromPlugin(platform, outcome) ==
    /\ outcome \in IF ImportCall("importMusicItem", "importMusicItem", platform, outcome).invoked # {}
                    THEN ImportOutcomes(1) ELSE {NotCalled}
    /\ hLast' = ImportCall("importMusicItem", "importMusicItem", platform, outcome)
    /\ UNCHANGED <<hPlugins, store, hFiles, sa, saObs, tasks, screen, loaderVars, registryVars>>

\* importMusicSheetFromPlugin(platform, urlLike) (lines 138-174): the
\* provider resolves to a list of items
ImportMusicSheetFromPlugin(platform, outcome) ==
    /\ outcome \in IF ImportCall("importMusicSheet", "importMusicSheet", platform, outcome).invoked # {}
                    THEN ImportOutcomes(MaxItems) \cup {ResolvedItems(<<>>)} ELSE {NotCalled}
    /\ hLast' = ImportCall("importMusicSheet", "importMusicSheet", platform, outcome)
    /\ UNCHANGED <<hPlugins, store, hFiles, sa, saObs, tasks, screen, loaderVars, registryVars>>

\* A implements both imports, B implements neither, C implements both and is
\* disabled by its persisted configuration
InitImport ==
    /\ hPlugins = [j \in 1..Len(HPlatforms) |->
           [platform |-> HPlatforms[j], filePath |-> j,
            instance |-> [search |-> TRUE, importMusicItem |-> HPlatforms[j] # "B",
                          importMusicSheet |-> HPlatforms[j] # "B"],
            userConfig |-> [DefaultConfig EXCEPT !.isEnabled = HPlatforms[j] # "C"]]]
    /\ store = [p \in HPlatformSet |->
           IF p = "C" THEN [DefaultConfig EXCEPT !.isEnabled = FALSE] ELSE None]
    /\ hFiles = HPlatforms
    /\ hLast = [op |-> "none"]
    /\ sa = SaIdle
    /\ saObs = ObsNone
    /\ appVersion = "3.0.0"
    /\ loaded = None
    /\ InitRegistryIdle

ImportOutcomesAll == ImportOutcomes(MaxItems) \cup {ResolvedItems(<<>>), NotCalled}
NextImport ==
    \/ \E platform \in HPlatformSet \cup {UnknownPlugin, ""}, outcome \in ImportOutcomesAll :
          ImportMusicItemFromPlugin(platform, outcome)
    \/ \E platform \in HPlatformSet \cup {UnknownPlugin, ""}, outcome \in ImportOutcomesAll :
          ImportMusicSheetFromPlugin(platform, outcome)
    \/ \E p \in HPlatformSet, b \in BOOLEAN : HSetPluginEnabled(p, b, TRUE)

SpecImport == InitImport /\ [][NextImport]_vars

(***************************************************************************)
(* The chart merge: fetchAllPluginsTopLists (helpers/pluginDataFetchers.ts *)
(* lines 179-202).                                                         *)
(***************************************************************************)
\* chart groups as a provider returns them: the first names a platform of
\* the provider's choice and holds an item without platform, the second
\* names none and holds two items, one with a platform of its own
ChartGroup1 == [title |-> "g1", platform |-> "other",
                data |-> <<[id |-> "1", platform |-> Nil]>>]
ChartGroup2 == [title |-> "g2", platform |-> Nil,
                data |-> <<[id |-> "1", platform |-> "other"], [id |-> "2", platform |-> Nil]>>]

\* what await plugin.instance.getTopLists() does
TopListResults == {Threw, ResolvedNull, ResolvedItems(<<>>), ResolvedItems(<<ChartGroup1>>),
                   ResolvedItems(<<ChartGroup2, ChartGroup1>>)}

\* an annotation that leaves the items of the group as they are
AnnotateGroupOnly(group, platform) == [group EXCEPT !.platform = platform]
\* ({ ...group, platform: plugin.platform, data: group.data.map(item =>
\* ({ ...item, platform: plugin.platform })) }) (lines 188-193)
AnnotateGroup(group, platform) ==
    [group EXCEPT !.platform = platform,
                  !.data = [j \in 1..Len(group.data) |-> [group.data[j] EXCEPT !.platform = platform]]]

\* the loop of lines 183-200 from the i-th active plugin on: the calls made
\* and the lists aggregated
RECURSIVE TopListsLoop(_, _, _)
TopListsLoop(activePlugins, i, outcomes) ==
    IF i > Len(activePlugins) THEN [invoked |-> <<>>, aggregatedTopLists |-> <<>>]
    ELSE LET plugin == activePlugins[i]
             rest == TopListsLoop(activePlugins, i + 1, outcomes)
             topLists == outcomes[plugin.platform]
         IN IF plugin.instance.getTopLists /\ plugin.userConfig.isEnabled # FALSE
            THEN [invoked |-> <<plugin.platform>> \o rest.invoked,
                  aggregatedTopLists |->
                     (IF topLists.kind = "items"
                      THEN [j \in 1..Len(topLists.items) |->
                               AnnotateGroup(topLists.items[j], plugin.platform)]
                      ELSE <<>>) \o rest.aggregatedTopLists]
            ELSE rest

\* fetchAllPluginsTopLists() (lines 179-202); outcomes[p] is what the
\* getTopLists of p does when it is called
FetchAllPluginsTopLists(outcomes) ==
    \E after \in {TopListsLoop(GetActivePlugins, 1, outcomes)} :
       /\ hLast' = [op |-> "fetchAllPluginsTopLists", outcomes |-> outcomes,
                    invoked |-> after.invoked, result |-> after.aggregatedTopLists]
       /\ UNCHANGED <<hPlugins, store, hFiles, sa, saObs, tasks, screen, loaderVars, registryVars>>

\* A and C implement getTopLists, B does not; all three are enabled
InitTopLists ==
    /\ hPlugins = [j \in 1..Len(HPlatforms) |->
           [platform |-> HPlatforms[j], filePath |-> j,
            instance |-> [search |-> TRUE, getTopLists |-> HPlatforms[j] # "B"],
            userConfig |-> DefaultConfig]]
    /\ store = [p \in HPlatformSet |-> None]
    /\ hFiles = HPlatforms
    /\ hLast = [op |-> "none"]
    /\ sa = SaIdle
    /\ saObs = ObsNone
    /\ appVersion = "3.0.0"
    /\ loaded = None
    /\ InitRegistryIdle

NextTopLists ==
    \/ \E outcomes \in [HPlatformSet -> TopListResults] : FetchAllPluginsTopLists(outcomes)
    \/ \E p \in HPlatformSet, b \in BOOLEAN : HSetPluginEnabled(p, b, TRUE)

SpecTopLists == InitTopLists /\ [][NextTopLists]_vars

\* the registry with the multi-provider search of the core PluginManager
NextSearch ==
    \/ \E code \in SearchInstallCodes : InstallPluginFromLocalFile(code, FALSE, TRUE, TRUE)
    \/ \E name \in RegistryNames, enabled \in BOOLEAN : SetPluginEnabled(name, enabled)
    \/ \E type \in SearchTypes, names \in {AllNames, OnlyNames({"qq"})}, firstThrows \in BOOLEAN,
          item \in ProvidedItems :
          Search(type, names, firstThrows, item)

SpecSearch == Init /\ [][NextSearch]_vars

(***************************************************************************)
(* PluginManager.search as the tasks of its Promise.all (part_005 lines    *)
(* 314-344): the calls start together and settle one by one.               *)
(***************************************************************************)
\* results[key] = value on an object held as the sequence of its entries in
\* key order: a key that exists keeps its place and takes the value, a new
\* key comes last
ObjectSet(object, key, value) ==
    LET idx == FindIndex([j \in 1..Len(object) |-> object[j].key = key])
    IN IF idx # 0 THEN [object EXCEPT ![idx].value = value]
       ELSE Append(object, [key |-> key, value |-> value])

\* lines 314-327: the selection is made, and the task of every selected
\* plugin runs up to its await: the search of each plugin that has one is
\* called, in the order of the selection
SearchFanOutStart(type, pluginNames) ==
    /\ ~(rLast.op = "searchFanOut" /\ rLast.pc = "awaiting")
    /\ LET selected == SearchSelection(type, pluginNames)
           called == {j \in 1..Len(selected) : "search" \in selected[j].instance.methods}
       IN rLast' = [op |-> "searchFanOut", pc |-> "awaiting",
                    selected |-> [j \in 1..Len(selected) |->
                                     [name |-> selected[j].name, hash |-> selected[j].hash]],
                    called |-> called, pending |-> called, results |-> <<>>]
    /\ UNCHANGED <<builtinPlugins, plugins, initialized, disk, userDisabled,
                   helperVars, tasks, screen, loaderVars>>

\* lines 327-336: the search of the j-th selected plugin resolves, and its
\* task files the result, named here by the hash of its producer
SearchFanOutSettle(j) ==
    /\ rLast.op = "searchFanOut"
    /\ rLast.pc = "awaiting"
    /\ j \in rLast.pending
    /\ rLast' = [rLast EXCEPT !.pending = @ \ {j},
                              !.results = ObjectSet(@, rLast.selected[j].name,
                                                    rLast.selected[j].hash)]
    /\ UNCHANGED <<builtinPlugins, plugins, initialized, disk, userDisabled,
                   helperVars, tasks, screen, loaderVars>>

\* lines 323, 343: Promise.all resolves when every task has, and results is
\* returned
SearchFanOutReturn ==
    /\ rLast.op = "searchFanOut"
    /\ rLast.pc = "awaiting"
    /\ rLast.pending = {}
    /\ rLast' = [rLast EXCEPT !.pc = "done"]
    /\ UNCHANGED <<builtinPlugins, plugins, initialized, disk, userDisabled,
                   helperVars, tasks, screen, loaderVars>>

\* between two searches a provider is installed, enabled or disabled
FanOutIdle == ~(rLast.op = "searchFanOut" /\ rLast.pc = "awaiting")
NextFanOut ==
    \/ \E type \in SearchTypes, names \in {AllNames, OnlyNames({"qq"})} :
          SearchFanOutStart(type, names)
    \/ \E j \in 1..(Len(builtinPlugins) + Len(plugins)) : SearchFanOutSettle(j)
    \/ SearchFanOutReturn
    \/ FanOutIdle /\ \E code \in SearchInstallCodes :
          InstallPluginFromLocalFile(code, FALSE, TRUE, TRUE)
    \/ FanOutIdle /\ \E name \in RegistryNames, enabled \in BOOLEAN : SetPluginEnabled(name, enabled)

SpecFanOut == Init /\ [][NextFanOut]_vars

(***************************************************************************)
(* Properties of searchAll.                                                *)
(***************************************************************************)
Range(s) == {s[j] : j \in 1..Len(s)}
SamePair(t, u) == t.id = u.id /\ t.platform = u.platform

\* C1: whatever each provider's search does (items, no items, an error), no
\* error reaches the caller of searchAll, and the returned data holds exactly
\* the items of the providers whose call succeeded, each under the platform
\* of the provider that returned it.
SearchAllToleratesFailures ==
    /\ sa.pc # "raised"
    /\ sa.pc = "done" =>
         /\ {<<t.platform, t.id>> : t \in Range(sa.result.data)}
                = {<<it[1], StringOf(it[2])>> : it \in saObs.items}
         /\ \A t \in Range(sa.result.data) : t.platform \in saObs.succeeded \ saObs.threw

\* A returned 2 items with isEnd false, B returned none, C threw: the 2 items
\* come back under platform A with hasMore true
SearchAllExampleReached ==
    /\ sa.pc = "done"
    /\ saObs.succeeded = {"A", "B"} /\ saObs.threw = {"C"}
    /\ saObs.notEnd = {"A"}
    /\ {it[1] : it \in saObs.items} = {"A"}
    /\ Len(sa.result.data) = 2
    /\ \A t \in Range(sa.result.data) : t.platform = "A"
    /\ sa.result.hasMore

FirstIndexOf(s, t) == CHOOSE j \in 1..Len(s) : SamePair(s[j], t) /\ \A k \in 1..(j - 1) : ~SamePair(s[k], t)

DedupByIdAndPlatform ==
    sa.pc = "done" =>
        LET data == sa.result.data
            merged == sa.aggregatedResults
        IN /\ \A k, l \in 1..Len(data) : SamePair(data[k], data[l]) => k = l
           /\ Range(data) = Range(merged)
           /\ \A k, l \in 1..Len(data) :
                 k < l => FirstIndexOf(merged, data[k]) < FirstIndexOf(merged, data[l])

\* the merged list held the same id under two platforms and one pair twice
DedupCollapseReached ==
    /\ sa.pc = "done"
    /\ \E k, l \in 1..Len(sa.aggregatedResults) :
          /\ sa.aggregatedResults[k].id = sa.aggregatedResults[l].id
          /\ sa.aggregatedResults[k].platform # sa.aggregatedResults[l].platform
    /\ \E k, l \in 1..Len(sa.aggregatedResults) :
          k < l /\ SamePair(sa.aggregatedResults[k], sa.aggregatedResults[l])
    /\ Len(sa.result.data) < Len(sa.aggregatedResults)

(***************************************************************************)
(* Properties of the PluginRegistry and of the core PluginManager.         *)
(***************************************************************************)
\* C4: a search started while provider p is disabled (setPluginEnabled(p,
\* false) was called and setPluginEnabled(p, true) was not called since)
\* invokes no entry of platform p and files no result under p.
DisabledProviderNotInvoked ==
    rLast.op = "search" =>
        /\ \A e \in rLast.invoked : e.name \notin userDisabled
        /\ rLast.results \cap userDisabled = {}

\* this step is a call of installPluginFromLocalFile that read a module from
\* the file, with the version check on, while an entry of the module's
\* platform was installed
CheckedInstallOverExisting ==
    /\ rLast'.op = "install"
    /\ rLast'.code # None
    /\ rLast'.code.kind = "module"
    /\ ~rLast'.notCheckVersion
    /\ FindByName(plugins, rLast'.code.platform) # 0

\* the version of the installed entry of the platform of the step's source,
\* and the version of the source
ExistingVersion == OrZero(plugins[FindByName(plugins, rLast'.code.platform)].instance.version)
IncomingVersion == OrZero(rLast'.code.version)

\* C5: an install, with the version check on, of a source whose declared
\* version is strictly older than the version of the installed entry of its
\* platform fails with the message that a newer version is already
\* installed, and leaves the installed entries and the files as they were.
OlderInstallIsBlocked ==
    [][(/\ CheckedInstallOverExisting
        /\ rLast'.code.version # Nil
        /\ SemVerOf(ExistingVersion) # <<>>
        /\ SemVerOf(IncomingVersion) # <<>>
        /\ Compare(ExistingVersion, IncomingVersion) = 1)
       => (/\ rLast'.result.outcome = "resolved"
           /\ ~rLast'.result.success
           /\ rLast'.result.message = MsgNewer
           /\ plugins' = plugins
           /\ disk' = disk)]_vars

\* 2.0.0 was installed over 3.0.0 with the version check on, and blocked
OlderInstallBlockedReached ==
    /\ rLast.op = "install"
    /\ rLast.code = ModuleOf("ext", "2.0.0", Methods, <<>>)
    /\ ~rLast.notCheckVersion
    /\ rLast.result.message = MsgNewer
    /\ FindByName(plugins, "ext") # 0
    /\ plugins[FindByName(plugins, "ext")].instance.version = "3.0.0"

\* C6: an install, with the version check on, of a loadable source whose
\* version is newer than or equal to the version of the installed entry of
\* its platform, when nothing throws, succeeds: the old entry is gone, its
\* file is deleted, and the installed entries hold the new unit, and only
\* it, for that platform.
NewerOrEqualInstallSucceeds ==
    [][(/\ CheckedInstallOverExisting
        /\ LoadFromCode(rLast'.code, LocalFile, appVersion, 0).state = "mounted"
        /\ SemVerOf(ExistingVersion) # <<>>
        /\ SemVerOf(IncomingVersion) # <<>>
        /\ Compare(ExistingVersion, IncomingVersion) <= 0
        /\ rLast'.result.outcome = "resolved")
       => LET k == FindByName(plugins, rLast'.code.platform)
              held == {j \in 1..Len(plugins') : plugins'[j].name = rLast'.code.platform}
          IN /\ rLast'.result.success
             /\ \A j \in 1..Len(plugins') : plugins'[j].hash # plugins[k].hash
             /\ plugins[k].path.dir = "plugins" => plugins[k].path.n \notin DOMAIN disk'
             /\ Cardinality(held) = 1
             /\ \A j \in held : plugins'[j].instance = rLast'.code]_vars

\* C7: an install of the source text that the call before installed, from
\* the same path, when nothing throws, returns success with the message that
\* the plugin is already installed, and leaves the installed entries and the files as they
\* were.
RepeatedInstallIsRecognised ==
    [][(/\ rLast.op = "install"
        /\ rLast.code # None
        /\ rLast.result.outcome = "resolved"
        /\ rLast.result.success
        /\ FindByHash(plugins, rLast.result.pluginHash) # 0
        /\ rLast'.op = "install"
        /\ rLast'.code = rLast.code
        /\ rLast'.result.outcome = "resolved")
       => (/\ rLast'.result.success
           /\ rLast'.result.message = MsgAlready
           /\ plugins' = plugins
           /\ disk' = disk)]_vars

\* C16 (searchAll): a plugin whose search was called declares no
\* supportedSearchType, or one that includes the type requested.
SearchAllCallsSupportingOnly ==
    \A p \in saObs.called :
        \/ "supportedSearchType" \notin DOMAIN HGetPlugin(p).instance
        \/ sa.pluginSearchType \in HGetPlugin(p).instance.supportedSearchType

\* C17: every item of every result that PluginManager.search files carries
\* the platform of the registry entry whose search produced it, whatever
\* platform the provider set, and the result is filed under that platform.
SearchStampsProviderPlatform ==
    rLast.op = "search" =>
        \A a \in rLast.assigned :
            /\ FindByHash(GetAllPlugins, a.producer) # 0
            /\ a.item.platform = GetAllPlugins[FindByHash(GetAllPlugins, a.producer)].name
            /\ a.key = a.item.platform
            /\ a.item.id = rLast.provided.id

\* the items of the built-in sample provider came back with a platform of
\* the provider's own choice and were filed under 'sample'
SearchStampOverwriteReached ==
    /\ rLast.op = "search"
    /\ rLast.provided.platform = "other"
    /\ \E a \in rLast.assigned : a.key = "sample" /\ a.item.platform = "sample"

\* C18: getAllPlugins() lists the three built-in entries first, in the
\* order of their registration, and after them the installed entries in
\* non-decreasing meta.order.
ListIsBuiltinsThenOrdered ==
    /\ Len(GetAllPlugins) >= Len(BuiltinsAfterConstruction)
    /\ \A j \in 1..Len(BuiltinsAfterConstruction) :
          GetAllPlugins[j].hash = BuiltinsAfterConstruction[j].hash
    /\ \A i, j \in 1..Len(plugins) :
          i < j => GetAllPlugins[Len(builtinPlugins) + i].meta.order
                      <= GetAllPlugins[Len(builtinPlugins) + j].meta.order

\* C19: an install that replaces an entry of the same platform gives the new
\* entry the replaced entry's order; an install of a platform that had no
\* entry gives the new entry enabled = true, no user variables and an order
\* that no other installed entry has.
InstallOrderAndDefaults ==
    [][(/\ rLast'.op = "install"
        /\ rLast'.result.outcome = "resolved"
        /\ rLast'.result.success
        /\ rLast'.result.message = Nil)
       => LET k == FindByName(plugins, rLast'.result.pluginName)
              n == FindByHash(plugins', rLast'.result.pluginHash)
          IN /\ n # 0
             /\ IF k # 0
                THEN plugins'[n].meta.order = plugins[k].meta.order
                ELSE /\ plugins'[n].meta.enabled
                     /\ plugins'[n].meta.userVariables = <<>>
                     /\ \A j \in 1..Len(plugins') :
                           j # n => plugins'[j].meta.order # plugins'[n].meta.order]_vars

ImportIsSingleProvider ==
    hLast.op \in {"importMusicItem", "importMusicSheet"} =>
        LET plugin == HGetPlugin(hLast.platform)
            usable == /\ HIndexOf(hLast.platform) # 0
                      /\ plugin.userConfig.isEnabled # FALSE
                      /\ plugin.instance[hLast.op]
        IN /\ hLast.invoked \subseteq {hLast.platform}
           /\ ~usable => (hLast.invoked = {} /\ hLast.result = ResolvedNull)
           /\ usable => hLast.invoked = {hLast.platform}
           /\ hLast.outcome.kind = "throw" => hLast.result = ResolvedNull
           /\ hLast.outcome.kind = "items" =>
                /\ hLast.result.kind = "items"
                /\ Len(hLast.result.items) = Len(hLast.outcome.items)
                /\ \A j \in 1..Len(hLast.outcome.items) :
                     /\ hLast.result.items[j].id = hLast.outcome.items[j].id
                     /\ hLast.result.items[j].platform =
                          IF hLast.outcome.items[j].platform \in {Nil, ""}
                          THEN hLast.platform
                          ELSE hLast.outcome.items[j].platform

\* a sheet import through A returned one item that had no platform and one
\* that had the provider's own
ImportStampedReached ==
    /\ hLast.op = "importMusicSheet"
    /\ hLast.platform = "A"
    /\ hLast.result.kind = "items"
    /\ Len(hLast.result.items) = 2
    /\ hLast.outcome.items[1].platform = Nil
    /\ hLast.result.items[1].platform = "A"
    /\ hLast.result.items[2].platform = "other"

\* C23: an install from a local file through the PluginManager gives the
\* result (outcome, success, platform) and leaves the installed plugins and
\* the plugin directory that an install of the same source from a URL, on
\* the same registry and with the same fate of the copy, gives and leaves.
InstallRoutesAgree ==
    [][rLast'.op = "managerInstallFromLocalFile"
       => LET viaUrl == InstallFromUrl(plugins, disk, rLast'.code, rLast'.notCheckVersion,
                                       TRUE, rLast'.copyOk, appVersion)
          IN /\ rLast'.result.outcome = viaUrl.result.outcome
             /\ rLast'.result.success = viaUrl.result.success
             /\ rLast'.result.pluginName = viaUrl.result.pluginName
             /\ plugins' = viaUrl.plugins
             /\ disk' = viaUrl.disk]_vars

\* C24: after an install of a source that loadFromCode gives the state
\* Error, getAllPlugins() holds an entry in that state, with the stub or
\* rejected instance as its capabilities.
BrokenProviderIsListed ==
    [][(/\ rLast'.op = "install"
        /\ rLast'.code # None
        /\ rLast'.code.kind # "empty"
        /\ LoadFromCode(rLast'.code, LocalFile, appVersion, FreshHash(plugins)).state = "error")
       => \E j \in 1..Len(builtinPlugins' \o plugins') :
             (builtinPlugins' \o plugins')[j].state = "error"]_vars

\* the groups of the result of fetchAllPluginsTopLists that carry platform p
GroupsOf(p) == SelectSeq(hLast.result, LAMBDA g : g.platform = p)

\* the position of platform p in the plugins map
PositionOf(p) == HIndexOf(p)

\* C25: the result of fetchAllPluginsTopLists holds, for every enabled
\* provider with getTopLists whose call resolved to groups, those groups in
\* their order, each carrying the provider's platform in place of its own,
\* as does every item of its data; it holds nothing of a provider that is
\* disabled, lacks getTopLists, threw or resolved to null; the groups of a
\* provider that comes earlier in the plugins map come earlier.
TopListsMergeInOrder ==
    hLast.op = "fetchAllPluginsTopLists" =>
        /\ \A i, j \in 1..Len(hLast.result) :
              i < j => PositionOf(hLast.result[i].platform) <= PositionOf(hLast.result[j].platform)
        /\ \A i \in 1..Len(hLast.result) :
              /\ hLast.result[i].platform \in HPlatformSet
              /\ \A k \in 1..Len(hLast.result[i].data) :
                    hLast.result[i].data[k].platform = hLast.result[i].platform
        /\ \A p \in HPlatformSet :
              LET plugin == HGetPlugin(p)
                  contributes == /\ plugin.userConfig.isEnabled # FALSE
                                 /\ plugin.instance.getTopLists
                                 /\ hLast.outcomes[p].kind = "items"
                  given == hLast.outcomes[p].items
              IN IF contributes
                 THEN /\ Len(GroupsOf(p)) = Len(given)
                      /\ \A j \in 1..Len(given) :
                            /\ GroupsOf(p)[j].title = given[j].title
                            /\ Len(GroupsOf(p)[j].data) = Len(given[j].data)
                            /\ \A k \in 1..Len(given[j].data) :
                                  GroupsOf(p)[j].data[k].id = given[j].data[k].id
                 ELSE GroupsOf(p) = <<>>

\* A resolved to one group, B has no getTopLists, C resolved to two groups
\* after A's: three groups came back, A's first
TopListsMergedReached ==
    /\ hLast.op = "fetchAllPluginsTopLists"
    /\ hLast.outcomes["A"] = ResolvedItems(<<ChartGroup1>>)
    /\ hLast.outcomes["B"] = ResolvedItems(<<ChartGroup1>>)
    /\ hLast.outcomes["C"] = ResolvedItems(<<ChartGroup2, ChartGroup1>>)
    /\ Len(hLast.result) = 3
    /\ hLast.result[1].platform = "A"
    /\ hLast.result[2].data[1].platform = "C"

\* A threw and C resolved to a group: C's group came back alone
TopListsThrowerOmittedReached ==
    /\ hLast.op = "fetchAllPluginsTopLists"
    /\ hLast.outcomes["A"] = Threw
    /\ Len(hLast.result) = 1
    /\ hLast.result[1].platform = "C"

\* C26: when initialize() completes, every '.js' file that was in the
\* plugin directory and whose source loads as Mounted has an entry of its
\* platform among the installed plugins.
InitializeLoadsEveryFile ==
    [][(rLast'.op = "initialize" /\ rLast'.outcome = "resolved")
       => \A n \in DOMAIN disk :
             (/\ disk[n] # OtherFile
              /\ LoadFromCode(disk[n], PluginDirFile(n), appVersion, 1).state = "mounted")
                => \E j \in 1..Len(plugins') :
                      /\ plugins'[j].name = disk[n].platform
                      /\ plugins'[j].state = "mounted"]_vars

\* initialize() has completed over a directory that held a 'qq' provider, a
\* file that is no '.js' file and nothing else: 'qq' is installed
InitializeLoadedReached ==
    /\ rLast.op = "initialize"
    /\ rLast.outcome = "resolved"
    /\ initialized
    /\ Len(plugins) = 1
    /\ plugins[1].name = "qq"
    /\ \E n \in DOMAIN disk : disk[n] = OtherFile

\* the object that filing the results of the selected plugins from the i-th
\* on, in the order of the selection, makes of object
RECURSIVE FiledInSelectionOrder(_, _, _, _)
FiledInSelectionOrder(object, selected, called, i) ==
    IF i > Len(selected) THEN object
    ELSE FiledInSelectionOrder(
            IF i \in called THEN ObjectSet(object, selected[i].name, selected[i].hash) ELSE object,
            selected, called, i + 1)

\* C27: the map that PluginManager.search returns has its keys in the order
\* in which getAllPlugins() enumerates their plugins and holds, for a name
\* that two selected entries share, the result of the entry enumerated
\* last, in whatever order the searches settled.
FanOutResultIgnoresCompletionOrder ==
    (rLast.op = "searchFanOut" /\ rLast.pc = "done")
        => rLast.results = FiledInSelectionOrder(<<>>, rLast.selected, rLast.called, 1)

\* C28: while searchAll waits for the search of one provider, the search of
\* every active provider that has one and is enabled has been called.
SearchAllInvokesAllAtOnce ==
    sa.pc = "awaiting" =>
        \A j \in 1..Len(sa.activePlugins) :
            (/\ sa.activePlugins[j].instance.search
             /\ HGetPlugin(sa.activePlugins[j].platform).userConfig.isEnabled # FALSE)
               => sa.activePlugins[j].platform \in saObs.called

\* what an installed list shows of its entries, in order
ShapeOf(ps) ==
    [j \in 1..Len(ps) |-> [name |-> ps[j].name, version |-> ps[j].instance.version,
                            order |-> ps[j].meta.order, enabled |-> ps[j].meta.enabled]]

\* the installed list after installing first and then second, one call at a
\* time, on the registry base
InstalledInTurn(base, first, second) ==
    LET one == InstallPlugin(base.plugins, base.disk, first, LocalFile, FALSE, TRUE, appVersion)
    IN InstallPlugin(one.plugins, one.disk, second, LocalFile, FALSE, TRUE, appVersion).plugins

\* C29: when two installPlugin calls that overlapped have both returned, the
\* installed plugins are those that one of the two orders of running the
\* calls one at a time gives; no platform has two installed entries.
OverlappingInstallsSerialize ==
    (DOMAIN tasks = 1..MaxTasks /\ \A t \in DOMAIN tasks : tasks[t].pc = "done")
        => /\ \/ ShapeOf(plugins) = ShapeOf(InstalledInTurn(tasks[1].base, tasks[1].code, tasks[2].code))
              \/ ShapeOf(plugins) = ShapeOf(InstalledInTurn(tasks[1].base, tasks[2].code, tasks[1].code))
           /\ \A i, j \in 1..Len(plugins) : plugins[i].name = plugins[j].name => i = j

\* C30: once no call of loadPlugins is in flight, and every
\* setPluginEnabled and setPluginUserVariable has resolved, the
\* configuration persisted under the key of each loaded plugin is the
\* plugin's userConfig in memory.
PersistedConfigMatchesMemory ==
    InFlight = {}
        => \A j \in 1..Len(hPlugins) :
              LoadPluginConfig(store, hPlugins[j].platform) = hPlugins[j].userConfig

\* the steps that replace an installed entry: a successful install, or a
\* loadPlugin, of a source whose platform has an entry already
ReplacedIndex ==
    IF rLast'.op = "install" /\ rLast'.result.outcome = "resolved" /\ rLast'.result.success
       /\ rLast'.result.message = Nil /\ plugins' # plugins
    THEN FindByName(plugins, rLast'.result.pluginName)
    ELSE IF rLast'.op = "loadPlugin" /\ plugins' # plugins
    THEN FindByName(plugins, rLast'.code.platform)
    ELSE 0

SingleProviderItemsCarryProvider ==
    (hLast.op \in {"importMusicItem", "importMusicSheet"} /\ hLast.result.kind = "items")
        => \A j \in 1..Len(hLast.result.items) : hLast.result.items[j].platform = hLast.platform

\* C33: once no call of loadSheetsForTag is in flight, every sheet the tag
\* listing shows was fetched for the tag that is selected.
ShownSheetsAreOfSelectedTag ==
    (screen.name = "radio" /\ screen.selectedTag # None /\ InFlight = {})
        => \A j \in 1..Len(screen.sheets) :
              /\ screen.sheets[j].id[1] = screen.selectedTag.id
              /\ screen.sheets[j].platform = screen.selectedTag.platform

\* C34: an install that does not complete successfully (it returns
\* success: false, or is rejected part-way) leaves the installed entries and
\* the files of the plugin directory exactly as they were.
FailedInstallChangesNothing ==
    [][(rLast'.op = "install" /\ ~rLast'.result.success)
          => (plugins' = plugins /\ disk' = disk)]_vars

\* C35: the path of every installed entry that lies in the plugin directory
\* names a file that exists.
EntryFilesExist ==
    \A j \in 1..Len(plugins) :
        plugins[j].path.dir = "plugins" => plugins[j].path.n \in DOMAIN disk

\* C36: when two initialize() calls that overlapped have both returned
\* without throwing, the installed entries and the files of the plugin
\* directory are those a single call leaves.
OverlappingInitializeIsOneCall ==
    (/\ DOMAIN tasks = 1..MaxTasks
     /\ \A t \in DOMAIN tasks : tasks[t].pc = "done" /\ ~tasks[t].thrown)
        => \E items \in Listings(tasks[1].base.disk) :
              LET single == InitializeLoop(tasks[1].base.plugins, tasks[1].base.disk,
                                           items, NoFile, appVersion)
              IN ShapeOf(plugins) = ShapeOf(single.plugins) /\ disk = single.disk

\* what the map of the helper holds: for each platform the file of its
\* script and its configuration
LoadedMap(ps) ==
    {[platform |-> ps[j].platform, filePath |-> ps[j].filePath,
      userConfig |-> ps[j].userConfig] : j \in 1..Len(ps)}

\* C37: a loadPlugins() that reads every file rebuilds the map that was in
\* memory: each platform with the script file and the configuration it had,
\* and no platform more.
ReloadRebuildsTheMap ==
    [][(hLast'.op = "loadPlugins" /\ hLast'.failAt = NoFile)
          => LoadedMap(hPlugins') = LoadedMap(hPlugins)]_vars

\* C38: a removePlugin(p) that fails leaves p's entry, the file of its
\* script and its persisted configuration as they were.
FailedRemoveLeavesPluginIntact ==
    [][(hLast'.op = "removePlugin" /\ hLast'.outcome = "rejected")
          => /\ HIndexOf(hLast'.pluginId) # 0
             /\ hPlugins' = hPlugins
             /\ hLast'.filePath \in DOMAIN hFiles'
             /\ hFiles'[hLast'.filePath] = hFiles[hLast'.filePath]
             /\ store'[hLast'.pluginId] = store[hLast'.pluginId]]_vars

InstallAlwaysResolves ==
    rLast.op = "install" => rLast.result.outcome = "resolved"

\* C8: the list of getAllPlugins() holds at most one enabled entry of a
\* platform.
OneEnabledEntryPerPlatform ==
    \A i, j \in 1..Len(GetAllPlugins) :
        (/\ GetAllPlugins[i].name = GetAllPlugins[j].name
         /\ GetAllPlugins[i].meta.enabled
         /\ GetAllPlugins[j].meta.enabled) => i = j

(***************************************************************************)
(* Properties of the helper PluginManager's configuration calls.           *)
(***************************************************************************)
\* C9: when the durable write of setPluginUserVariable(p, key, value) fails,
\* the call fails and a following read of p's user variables gives the value
\* that was there before the call.
FailedWriteRollsBack ==
    (hLast.op = "setPluginUserVariable" /\ hLast.outcome = "rejected")
        => GetUserVariables(hLast.pluginId)[hLast.key] = hLast.before

(***************************************************************************)
(* Properties of the PluginLoader.                                         *)
(***************************************************************************)
\* the source does not execute, or yields no object with a non-empty platform
FailsStructuralValidation(code) == code.kind \in {"throws", "empty"} \/ code.platform = ""

\* C10: for every source that fails structural validation, whatever else it
\* declares, loadFromCode returns state Error with reason CannotParse and the
\* stub unit, whose search gives {isEnd: true, data: []} and whose
\* getMediaSource and getAlbumInfo give null.
InvalidSourceIsCannotParse ==
    (loaded # None /\ FailsStructuralValidation(loaded.pluginCode)) =>
        /\ loaded.result.state = "error"
        /\ loaded.result.errorReason = "cannot-parse"
        /\ SearchResultsOf(loaded.result.instance) = {StubSearchResult}
        /\ GetMediaSourceOf(loaded.result.instance) = {"null"}
        /\ GetAlbumInfoOf(loaded.result.instance) = {"null"}

\* the source executes and yields an object with a non-empty platform
StructurallyValid(code) == code.kind = "module" /\ code.platform # ""

\* C11: a structurally valid source whose version range the host version
\* does not satisfy loads with state Error and reason version-not-match, and
\* the instance returned is the unit the source yielded (its platform and
\* its methods), not the stub.
UnsatisfiedRangeIsVersionNotMatch ==
    (/\ loaded # None
     /\ StructurallyValid(loaded.pluginCode)
     /\ loaded.pluginCode.version # Nil
     /\ ~Satisfies(appVersion, loaded.pluginCode.version)) =>
        /\ loaded.result.state = "error"
        /\ loaded.result.errorReason = "version-not-match"
        /\ loaded.result.instance = loaded.pluginCode
        /\ ~loaded.result.instance.stub
        /\ loaded.result.name = loaded.pluginCode.platform

\* a unit of platform 'ext' with range 3.0.0 was loaded on a host at 2.0.0
UnsatisfiedRangeReached ==
    /\ loaded # None
    /\ appVersion = "2.0.0"
    /\ loaded.pluginCode = ModuleOf("ext", "3.0.0", Methods, <<>>)
    /\ loaded.result.errorReason = "version-not-match"

\* C12: a source that yields a non-empty platform loads with state Mounted
\* whatever its own version field holds (the units of the model declare no
\* other range; the version field is the only one validatePlugin reads).
ValidSourceIsMounted ==
    (loaded # None /\ StructurallyValid(loaded.pluginCode)) =>
        loaded.result.state = "mounted"

(***************************************************************************)
(* Properties of the single-provider operations.                           *)
(***************************************************************************)
\* C14: a single-provider operation never raises; it returns null when the
\* provider named by the item's platform is absent, is disabled, lacks the
\* method (and the item offers no fallback), or throws; and when the
\* provider is absent or disabled, no method of any provider is called.
SingleProviderCallsReturnNull ==
    /\ rLast.op \in {"getMediaSource", "getAlbumInfo"} =>
         LET k == GetPluginByName(rLast.item.platform)
             gone == k = 0 \/ ~GetAllPlugins[k].meta.enabled
             lacks == k # 0 /\ rLast.op \notin GetAllPlugins[k].instance.methods
         IN /\ rLast.result # "raised"
            /\ gone => (rLast.result = "null" /\ rLast.invoked = {})
            /\ (lacks /\ (rLast.op = "getAlbumInfo" \/ rLast.item.url = Nil))
                  => (rLast.result = "null" /\ rLast.invoked = {})
            /\ rLast.outcome = "throw" => rLast.result = "null"
    /\ hLast.op = "fetchPluginAlbumInfo" =>
         LET plugin == HGetPlugin(hLast.platform)
             gone == HIndexOf(hLast.platform) = 0 \/ plugin.userConfig.isEnabled = FALSE
             lacks == HIndexOf(hLast.platform) # 0 /\ ~plugin.instance.getAlbumInfo
         IN /\ hLast.result # "raised"
            /\ (gone \/ lacks) => (hLast.result = "null" /\ hLast.invoked = {})
            /\ hLast.outcome = "throw" => hLast.result = "null"

\* getAlbumInfo met a provider that threw, getMediaSource was asked for a
\* disabled provider, and fetchPluginAlbumInfo for a disabled one
SingleProviderFailuresReached ==
    /\ hLast.op = "fetchPluginAlbumInfo"
    /\ hLast.platform = "C"
    /\ hLast.result = "null"
    /\ rLast.op = "getAlbumInfo"
    /\ rLast.outcome = "throw"
    /\ rLast.item.platform = "ext"
    /\ rLast.result = "null"
    /\ "qq" \in userDisabled

\* C15: getMediaSource, for an enabled provider that implements no
\* getMediaSource, returns {url: item.url} when the item has a url and null
\* otherwise; for an absent or disabled provider it never returns the url.
MediaSourceFallback ==
    rLast.op = "getMediaSource" =>
        LET k == GetPluginByName(rLast.item.platform)
            gone == k = 0 \/ ~GetAllPlugins[k].meta.enabled
        IN /\ (~gone /\ "getMediaSource" \notin GetAllPlugins[k].instance.methods)
                => (/\ rLast.invoked = {}
                    /\ rLast.result = IF rLast.item.url # Nil THEN "url" ELSE "null")
           /\ gone => rLast.result # "url"

\* the url of the item was returned for the installed provider without methods
MediaSourceFallbackReached ==
    /\ rLast.op = "getMediaSource"
    /\ rLast.item = [platform |-> "ext", url |-> "u"]
    /\ rLast.result = "url"
    /\ GetPluginByName("ext") # 0
    /\ GetAllPlugins[GetPluginByName("ext")].instance.methods = {}

====
